---- MODULE Spec2Model ----
(***************************************************************************)
(* A model of the install-and-launch core of the Cat Client launchers      *)
(* (src/Cat4k.py, src/CAT2.1.X.py, src/Client.py, src/$CATCLIENT1.1.py).   *)
(*                                                                         *)
(* The module holds several specifications over one set of variables.      *)
(* Each specification drives one group of variables and leaves the other   *)
(* groups at their idle values:                                            *)
(*   SpecRules   the library rule evaluation (a pure function)             *)
(*   SpecFetch   download_file with retries ($CATCLIENT1.1.py)             *)
(*   SpecInstall load_version_manifest and install_version of Cat4k.py     *)
(*               over a small world of version descriptors                 *)
(*   SpecConcurrent  two threads running install_version side by side      *)
(*   SpecLaunch  launch_game (Cat4k.py, and the command of CAT2.1.X.py) on *)
(*               an installed tree, for every platform and account         *)
(*   SpecArgs    the placeholder expansion of launch_game's argument       *)
(*               tokens (Cat4k.py; CAT2.1.X.py and Client.py)              *)
(*   SpecGui     the launch button, on_launch and the worker thread        *)
(*               _launch_task of the launcher window (Cat4k.py,            *)
(*               CAT2.1.X.py, $CATCLIENT1.1.py); SpecGuiFair adds the      *)
(*               scheduling of the threads and of the Tk main loop         *)
(***************************************************************************)
EXTENDS Integers, Sequences, FiniteSets, TLC

VARIABLES
  \* ---- rule evaluation (SpecRules) ----
  rules,        \* the "rules" list of the library under evaluation
  current_os,   \* the OS name the running platform maps to
  current_arch, \* the architecture of the running platform (platform.machine())
  allowed,      \* <<result>> of install_version's inline test (<<>> before)
  lib_allowed,  \* <<result>> of launch_game.lib_rules_allow (<<>> before)
  \* ---- download_file with retries (SpecFetch) ----
  retries,      \* parameter retries
  attempt,      \* local variable attempt
  dl_pc,        \* "idle" | "loop" | "returned" | "raised"
  dest_file,    \* state of dest_path on disk: "absent" | "partial" | "complete"
  sleeps,       \* history: the arguments of time.sleep, in order
  outcomes,     \* history: the outcome of every GET attempt, in order
  \* ---- install_version of Cat4k.py (SpecInstall) ----
  inheritsFrom, \* the "inheritsFrom" field of every descriptor (fixed in a run)
  all_versions, \* global all_versions: the ids of the loaded version manifest
  fs,           \* the disk: path -> "absent" | "partial" | "complete"
  extracted,    \* pairs <<version, native archive>> extracted into natives/
  stack,        \* per thread: the install_version frames, innermost last
  result,       \* per thread: "idle" | "running" | "returned" | "raised"
  error,        \* per thread: the exception that ended the last call
  log,          \* history, per thread: the events of the current call
  completed,    \* history: versions whose install_version has returned
  ok_fetches,   \* history: path -> number of downloads that completed
  failures,     \* history: number of failed downloads so far
  launching,    \* per thread: the version launch_game was called for, or "none"
  main_class,   \* per thread: main_class of that launch_game
  launch_libs,  \* per thread: the library list that launch_game walked
  classpath,    \* per thread: the classpath set of that launch_game
  spawned,      \* per thread: whether that launch_game spawned the game
  command,      \* per thread: the command list that launch_game assembled
  command_21,   \* per thread: the command list of launch_game of CAT2.1.X.py
  options,      \* per thread: the other inputs of that launch_game, once it read them
  \* ---- placeholder expansion of launch_game (SpecArgs) ----
  arg,          \* a literal token of arguments.jvm / arguments.game
  arguments,    \* version -> the "arguments" and "minecraftArguments" of its descriptor
  account,      \* the account launch_game is called with
  expanded,     \* <<outcome>> of the Cat4k.py expansion of arg (<<>> before)
  expanded_21,  \* <<outcome>> of the CAT2.1.X.py / Client.py expansion
  \* ---- the launcher window (SpecGui) ----
  program,      \* which launcher runs: "Cat4k" | "CAT2.1.X" | "CATCLIENT1.1"
  launch_btn,   \* state of self.launch_btn: "normal" | "disabled"
  is_launching, \* self.is_launching (stays FALSE in Cat4k.py, which has no such flag)
  after_queue,  \* callbacks queued by root.after(0, self.launch_btn.config, ...)
  task,         \* worker thread -> where its _launch_task is
  released      \* history: workers whose re-enabling of the button took effect

rulesVars == <<rules, current_os, current_arch, allowed, lib_allowed>>
fetchVars == <<retries, attempt, dl_pc, dest_file, sleeps, outcomes>>
installVars == <<inheritsFrom, all_versions, fs, extracted, stack, result, error,
                 log, completed, ok_fetches, failures>>
launchVars == <<launching, main_class, launch_libs, classpath, spawned, command,
                command_21, options>>
argsVars == <<arg, arguments, account, expanded, expanded_21>>
guiVars == <<program, launch_btn, is_launching, after_queue, task, released>>
vars == <<rulesVars, fetchVars, installVars, launchVars, argsVars, guiVars>>

(***************************************************************************)
(* Bounds of the model.                                                    *)
(***************************************************************************)
MaxRules == 2      \* longest rule list drawn
MaxRetries == 4    \* largest value of the retries parameter drawn
MaxFailures == 1   \* failed downloads in one behaviour of the installer
RecursionLimit == 4 \* frames after which the interpreter raises RecursionError
MaxWorkers == 3       \* worker threads one window starts in a run
MaxTokenLen == 5   \* longest argument token drawn, in pieces

(***************************************************************************)
(* Library rules.  A rule is {"action": ..., "os": {"name": ..., "arch":   *)
(* ...}} with the os object, its name and its arch all optional.           *)
(***************************************************************************)
OSNames == {"osx", "windows", "linux"}
Archs == {"x86", "arm64"}
NoName == "no_name"      \* the os object has no "name" key
NoArch == "no_arch"      \* the os object has no "arch" key
\* A rule is modelled flat: name and arch are the fields of its os object.
\* An absent os object and an empty one are both falsy for "not rule.get('os')".
Rules == [action : {"allow", "disallow"},
          name : OSNames \cup {NoName}, arch : Archs \cup {NoArch}]

\* not rule.get("os")
no_os(rule) == rule.name = NoName /\ rule.arch = NoArch

RECURSIVE SeqsUpTo(_, _)
SeqsUpTo(S, n) ==
  IF n = 0 THEN {<<>>}
  ELSE LET shorter == SeqsUpTo(S, n - 1)
       IN shorter \cup {Append(s, x) : s \in {t \in shorter : Len(t) = n - 1}, x \in S}

\* rule["action"] == "allow" and (not rule.get("os") or rule["os"].get("name") == <os>)
rule_allows(rule, os) ==
  /\ rule.action = "allow"
  /\ (no_os(rule) \/ rule.name = os)

\* install_version: allowed = (not rules or any(... for rule in rules))
install_allowed(rs, os) ==
  \/ rs = <<>>
  \/ \E i \in 1..Len(rs) : rule_allows(rs[i], os)

\* launch_game.lib_rules_allow: the same expression, written a second time
lib_rules_allow(rs, os) ==
  \/ rs = <<>>
  \/ \E i \in 1..Len(rs) : rule_allows(rs[i], os)

RulesIdle ==
  /\ rules = <<>>
  /\ current_os = "linux"
  /\ current_arch = "x86"
  /\ allowed = <<>>
  /\ lib_allowed = <<>>

RulesInit ==
  /\ rules \in SeqsUpTo(Rules, MaxRules)
  /\ current_os \in OSNames
  /\ current_arch \in Archs
  /\ allowed = <<>>
  /\ lib_allowed = <<>>

\* install_version evaluates the rules of a library
EvalInstall ==
  /\ allowed = <<>>
  /\ allowed' = <<install_allowed(rules, current_os)>>
  /\ UNCHANGED <<rules, current_os, current_arch, lib_allowed>>

\* launch_game evaluates the rules of a library
EvalLaunch ==
  /\ lib_allowed = <<>>
  /\ lib_allowed' = <<lib_rules_allow(rules, current_os)>>
  /\ UNCHANGED <<rules, current_os, current_arch, allowed>>

(***************************************************************************)
(* download_file(url, dest_path, ..., retries) of $CATCLIENT1.1.py.        *)
(* Every iteration of the while loop performs one GET; its outcome is one  *)
(* of                                                                      *)
(*   "ok"         urlopen and the copy succeed                             *)
(*   "http"       urlopen raises HTTPError (nothing is written)            *)
(*   "transport"  urlopen raises another error (nothing is written)        *)
(*   "cut"        the copy of the body fails after open(dest_path, 'wb')   *)
(*                has created the file: the file keeps what was written    *)
(*   "perm"       open(dest_path, 'wb') raises PermissionError             *)
(***************************************************************************)
RetryOutcomes == {"http", "transport", "cut"}

RECURSIVE Pow2(_)
Pow2(n) == IF n = 0 THEN 1 ELSE 2 * Pow2(n - 1)

\* a delay that grows by one second instead of doubling
BackoffLinear(a) == a + 1
\* time.sleep(2 ** attempt), evaluated after attempt += 1
Backoff(a) == Pow2(a)

\* a loop test that lets one attempt too many through
LoopGuardOffByOne == attempt <= retries
\* while attempt < retries
LoopGuard == attempt < retries

FetchIdle ==
  /\ retries = 0
  /\ attempt = 0
  /\ dl_pc = "idle"
  /\ dest_file = "absent"
  /\ sleeps = <<>>
  /\ outcomes = <<>>

\* the state after "attempt = 0", for every value of the parameter
FetchInit ==
  /\ retries \in 0..MaxRetries
  /\ attempt = 0
  /\ dl_pc = "loop"
  /\ dest_file = "absent"
  /\ sleeps = <<>>
  /\ outcomes = <<>>

\* try-body runs to "return True"
AttemptOk ==
  /\ dl_pc = "loop" /\ LoopGuard
  /\ outcomes' = Append(outcomes, "ok")
  /\ dest_file' = "complete"
  /\ dl_pc' = "returned"
  /\ UNCHANGED <<retries, attempt, sleeps>>

\* except HTTPError / except Exception: attempt += 1; time.sleep(2 ** attempt)
AttemptRetry(o) ==
  /\ dl_pc = "loop" /\ LoopGuard
  /\ outcomes' = Append(outcomes, o)
  /\ dest_file' = IF o = "cut" THEN "partial" ELSE dest_file
  /\ attempt' = attempt + 1
  /\ sleeps' = Append(sleeps, Backoff(attempt + 1))
  /\ UNCHANGED <<retries, dl_pc>>

\* except PermissionError: raise
AttemptPermissionError ==
  /\ dl_pc = "loop" /\ LoopGuard
  /\ outcomes' = Append(outcomes, "perm")
  /\ dl_pc' = "raised"
  /\ UNCHANGED <<retries, attempt, dest_file, sleeps>>

\* the loop ends: raise Exception("Failed to download ... after ... attempts")
LoopExit ==
  /\ dl_pc = "loop" /\ ~LoopGuard
  /\ dl_pc' = "raised"
  /\ UNCHANGED <<retries, attempt, dest_file, sleeps, outcomes>>

(***************************************************************************)
(* The world install_version works on: three version descriptors, the      *)
(* libraries and asset indexes they name, and the global version index.    *)
(* "v3" is a local-only version (a modded profile): it is not listed in    *)
(* the global index, so its descriptor is only ever found on disk.         *)
(***************************************************************************)
Versions == {"v1", "v2", "v3"}
NoParent == "none"         \* the descriptor has no "inheritsFrom"
ManifestIds == {"v1", "v2"}  \* the ids listed in the version manifest
NoIndex == "no_index"      \* the descriptor has no "assetIndex"
NoPath == "no_path"        \* a library without artifact / without natives
NoMainClass == "None"      \* the descriptor has no "mainClass"
Threads == {1, 2}

AllowAll == <<>>
OsxOnly == <<[action |-> "allow", name |-> "osx", arch |-> NoArch]>>
NotWindows == <<[action |-> "allow", name |-> NoName, arch |-> NoArch],
                [action |-> "disallow", name |-> "windows", arch |-> NoArch]>>

\* name -> library entry.  artifact: downloads.artifact.path; native: the path
\* of the classifier chosen for the platform (natives + downloads.classifiers)
Library(name) ==
  CASE name = "libA" -> [rules |-> AllowAll, artifact |-> "a.jar", native |-> NoPath]
    [] name = "libN" -> [rules |-> NotWindows, artifact |-> NoPath, native |-> "n-natives.jar"]
    [] name = "libB" -> [rules |-> OsxOnly, artifact |-> "b.jar", native |-> NoPath]
    [] name = "libC" -> [rules |-> AllowAll, artifact |-> "c.jar", native |-> NoPath]

\* a literal argument token (a JSON string), a sequence of pieces (see the
\* section on argument tokens)
Str(tok) == [kind |-> "str", text |-> tok, rules |-> <<>>, value |-> <<>>]

\* a conditional argument token {"rules": [...], "value": ...}; value is the
\* list of its strings (a single string is a list of one)
Cond(rs, value) == [kind |-> "dict", text |-> <<>>, rules |-> rs, value |-> value]

\* the "arguments" object of a descriptor and its "minecraftArguments" string:
\* has_jvm / has_game tell whether the key is there, legacy is the split
\* minecraftArguments (<<>>: no such key)
Arguments(v) ==
  CASE v = "v1" -> [has_jvm |-> TRUE,
                    jvm |-> << Str(<<"-Dv1=1">>), Str(<<"$", "{", "nokey", "}">>),
                               Cond(OsxOnly, << <<"-XstartOnFirstThread">> >>) >>,
                    has_game |-> TRUE,
                    game |-> << Str(<<"--username">>), Str(<<"$", "{", "auth_player_name", "}">>),
                                Cond(OsxOnly, << <<"--width">>,
                                                 <<"$", "{", "resolution_width", "}">>,
                                                 <<"--height">> >>) >>,
                    legacy |-> <<>>]
    [] v = "v2" -> [has_jvm |-> FALSE, jvm |-> <<>>,
                    has_game |-> TRUE, game |-> << Str(<<"--demo">>) >>,
                    legacy |-> <<>>]
    [] v = "v3" -> [has_jvm |-> FALSE, jvm |-> <<>>, has_game |-> FALSE, game |-> <<>>,
                    legacy |-> << Str(<<"--legacy">>),
                                  Str(<<"$", "{", "auth_player_name", "}">>) >>]

\* a descriptor with neither "arguments" nor "minecraftArguments"
NoArguments ==
  [has_jvm |-> FALSE, jvm |-> <<>>, has_game |-> FALSE, game |-> <<>>, legacy |-> <<>>]

\* the descriptors on disk: as above, or with v2 declaring no arguments at all
ArgumentWorlds ==
  { [v \in Versions |-> Arguments(v)],
    [v \in Versions |-> IF v = "v2" THEN NoArguments ELSE Arguments(v)] }

\* the descriptor <version>.json, apart from inheritsFrom and the arguments
Descriptor(v) ==
  CASE v = "v1" -> [client |-> TRUE, libraries |-> <<"libA", "libN">>, assetIndex |-> "idx1",
                    mainClass |-> "net.minecraft.client.main.Main"]
    [] v = "v2" -> [client |-> TRUE, libraries |-> <<"libB">>, assetIndex |-> NoIndex,
                    mainClass |-> NoMainClass]
    [] v = "v3" -> [client |-> FALSE, libraries |-> <<"libC", "libA">>, assetIndex |-> "idx3",
                    mainClass |-> NoMainClass]

\* asset hashes, as sequences of characters
Hash1 == <<"a", "b", "1">>
Hash3 == <<"c", "d", "3">>
NoHash == <<>>             \* an entry without "hash"

\* the "objects" of an asset index, in file order
AssetIndex(id) ==
  CASE id = "idx1" -> <<[name |-> "icon", hash |-> Hash1], [name |-> "icon2", hash |-> Hash1],
                        [name |-> "stub", hash |-> NoHash]>>
    [] id = "idx3" -> <<[name |-> "icon", hash |-> Hash1], [name |-> "mod", hash |-> Hash3]>>

IndexIds == {"idx1", "idx3"}
Hashes == {Hash1, Hash3}
LibraryNames == {"libA", "libN", "libB", "libC"}

\* the parent maps drawn: no inheritance, a chain of depth three, two children
\* of one parent, a parent that is local-only, a self-reference, a two-cycle
ParentMaps ==
  { [v \in Versions |-> NoParent],
    [v \in Versions |-> CASE v = "v3" -> "v2" [] v = "v2" -> "v1" [] OTHER -> NoParent],
    [v \in Versions |-> CASE v = "v3" -> "v1" [] v = "v2" -> "v1" [] OTHER -> NoParent],
    [v \in Versions |-> CASE v = "v2" -> "v3" [] OTHER -> NoParent],
    [v \in Versions |-> CASE v = "v3" -> "v3" [] OTHER -> NoParent],
    [v \in Versions |-> CASE v = "v3" -> "v2" [] v = "v2" -> "v3" [] OTHER -> NoParent] }

(***************************************************************************)
(* Paths.  Every path is a sequence of strings.                            *)
(***************************************************************************)
version_manifest_path == <<"version_manifest_v2.json">>
\* version_folder = os.path.join(VERSIONS_DIR, version_id)
version_folder(v) == <<"versions", v>>
version_json_path(v) == <<"versions", v, "json">>
version_jar_path(v) == <<"versions", v, "jar">>
lib_path(artifact) == <<"libraries", artifact>>
idx_dest(id) == <<"assets", "indexes", id>>
\* subdir = hash_val[:2]; os.path.join(ASSETS_DIR, "objects", subdir, hash_val)
subdir(h) == SubSeq(h, 1, 2)
asset_path(h) == <<"assets", "objects">> \o subdir(h) \o <<"/">> \o h

Artifacts == {Library(n).artifact : n \in LibraryNames} \ {NoPath}
Natives == {Library(n).native : n \in LibraryNames} \ {NoPath}

Paths ==
  {version_manifest_path}
  \cup {version_folder(v) : v \in Versions}
  \cup {version_json_path(v) : v \in Versions}
  \cup {version_jar_path(v) : v \in Versions}
  \cup {lib_path(a) : a \in Artifacts \cup Natives}
  \cup {idx_dest(id) : id \in IndexIds}
  \cup {asset_path(h) : h \in Hashes}

\* os.path.isfile(path): false for a path that is absent or a directory
isfile(path) == fs[path] \in {"partial", "complete"}
\* os.path.dirname(path), for the folders the model tracks (the version folders)
NoFolder == <<>>
dirname(path) ==
  IF Len(path) = 3 /\ path[1] = "versions" THEN SubSeq(path, 1, 2) ELSE NoFolder
\* json.load / zipfile.ZipFile on a file that holds only part of the body fails
readable(path) == fs[path] = "complete"

(***************************************************************************)
(* download_file of Cat4k.py: one GET, no retry.  Its outcomes:            *)
(*   "ok"    the body is copied: the file is complete                      *)
(*   "fail"  urlopen (or open) raises: nothing is written                  *)
(*   "cut"   the copy fails midway: the file holds part of the body        *)
(* A failure raises Exception, which no caller in install_version catches. *)
(***************************************************************************)
DownloadOutcomes == {"ok", "fail", "cut"}

Written(o) == IF o = "ok" THEN "complete" ELSE IF o = "cut" THEN "partial" ELSE "absent"

\* a download that, when it fails, removes what earlier downloads left
download_file_rollback(path, o) ==
  IF o = "ok" THEN [fs EXCEPT ![path] = "complete"]
  ELSE [p \in Paths |-> IF fs[p] = "dir" THEN "dir" ELSE "absent"]

\* the file system after download_file(url, path) ended with outcome o:
\* os.makedirs(os.path.dirname(dest_path), exist_ok=True) comes before the try
download_file(path, o) ==
  LET made == IF dirname(path) = NoFolder THEN fs ELSE [fs EXCEPT ![dirname(path)] = "dir"]
  IN IF o = "fail" THEN made ELSE [made EXCEPT ![path] = Written(o)]

CanFail(o) == o = "ok" \/ failures < MaxFailures

Top(t) == stack[t][Len(stack[t])]
Depth(t) == Len(stack[t])

\* a history event: op is "call", "return", "raise", "fetch" (download_file was
\* called) or "skip" (the file was found); depth is the depth of the frame it
\* belongs to; flag is, for "fetch" and "skip", whether the file was on disk,
\* and for "call", whether an earlier install of the version has returned
Event(op, v, kind, path, d, flag) ==
  [op |-> op, v |-> v, kind |-> kind, path |-> path, depth |-> d, flag |-> flag]

\* thread t is in install_version, its innermost frame at pc
At(t, pc) == result[t] = "running" /\ stack[t] # <<>> /\ Top(t).pc = pc

\* replace the innermost frame of thread t
SetTop(t, f) == [stack EXCEPT ![t] = [@ EXCEPT ![Len(@)] = f]]

\* the locals of a call; kind, path and resume are set while the call is inside
\* download_file: what is fetched, where to, and the statement that follows
NewFrame(v) ==
  [version_id |-> v, pc |-> "json", parent_data |-> NoParent, libraries |-> <<>>,
   i |-> 1, idx |-> NoIndex, j |-> 1, kind |-> "none", path |-> <<>>, resume |-> "none"]

\* a variant in which the calling install_version catches what its parent's
\* installation raises and goes on with its own client jar
RaiseCaughtByChild(t, e, events) ==
  /\ stack' = IF Depth(t) > 1
               THEN [stack EXCEPT ![t] =
                       [SubSeq(@, 1, Len(@) - 1) EXCEPT ![Len(@) - 1].pc = "jar"]]
               ELSE [stack EXCEPT ![t] = <<>>]
  /\ result' = IF Depth(t) > 1 THEN result ELSE [result EXCEPT ![t] = "raised"]
  /\ error' = IF Depth(t) > 1 THEN error ELSE [error EXCEPT ![t] = e]
  /\ log' = [log EXCEPT ![t] = @ \o events \o <<Event("raise", Top(t).version_id, e, <<>>, Depth(t), FALSE)>>]

\* a variant in which install_version prints the exception and returns
RaiseSwallowed(t, e, events) ==
  /\ stack' = [stack EXCEPT ![t] = <<>>]
  /\ result' = [result EXCEPT ![t] = "returned"]
  /\ error' = [error EXCEPT ![t] = "none"]
  /\ log' = [log EXCEPT ![t] = @ \o events \o <<Event("return", Top(t).version_id, "install", <<>>, 1, FALSE)>>]

\* no launch_game is under way on the thread
NoLaunch == "none"
\* no launch_game has read its options on the thread
NoOptions == [lunar_client |-> FALSE, use_rosetta |-> FALSE, under_rosetta |-> FALSE,
              server_ip |-> FALSE, port |-> FALSE, java_found |-> FALSE]

\* a launch_game that catches what install_version raises and goes on
RaiseCaughtByLaunch(t, e, events) ==
  /\ stack' = [stack EXCEPT ![t] = <<>>]
  /\ result' = [result EXCEPT ![t] = IF launching[t] = NoLaunch THEN "raised" ELSE "running"]
  /\ error' = [error EXCEPT ![t] = e]
  /\ log' = [log EXCEPT ![t] = @ \o events \o <<Event("raise", Top(t).version_id, e, <<>>, Depth(t), FALSE)>>]

\* an exception leaves install_version (and launch_game, when that is the
\* caller): every frame of the thread is unwound
Raise(t, e, events) ==
  /\ stack' = [stack EXCEPT ![t] = <<>>]
  /\ result' = [result EXCEPT ![t] = "raised"]
  /\ error' = [error EXCEPT ![t] = e]
  /\ log' = [log EXCEPT ![t] = @ \o events \o <<Event("raise", Top(t).version_id, e, <<>>, Depth(t), FALSE)>>]

\* the frame goes on with f
Continue(t, f, events) ==
  /\ stack' = SetTop(t, f)
  /\ log' = [log EXCEPT ![t] = @ \o events]
  /\ UNCHANGED <<result, error>>

\* the file is there: the statement is passed over
Found(t, kind, path, next) ==
  Continue(t, next, <<Event("skip", Top(t).version_id, kind, path, Depth(t), isfile(path))>>)

\* the file is not there: the frame is about to call download_file(url, path)
EnterDownload(t, kind, path, next) ==
  Continue(t, [next EXCEPT !.pc = "download", !.resume = next.pc,
                           !.kind = kind, !.path = path], <<>>)

\* "if not os.path.isfile(path): download_file(url, path)" at one call site of
\* the frame: the test.  next is the frame after the statement; when the file
\* is not there the frame enters download_file, which is a step of its own
\* (other threads run between the test and the download)
FetchIfAbsent(t, kind, path, present, next) ==
  /\ IF present THEN Found(t, kind, path, next) ELSE EnterDownload(t, kind, path, next)
  /\ UNCHANGED <<fs, ok_fetches, failures>>

\* download_file(url, path) called by install_version runs, with outcome o
InstallDownload(t) ==
  /\ UNCHANGED launchVars
  /\ At(t, "download")
  /\ LET f == Top(t)
         ev == Event("fetch", f.version_id, f.kind, f.path, Depth(t), isfile(f.path))
     IN \E o \in DownloadOutcomes :
          /\ CanFail(o)
          /\ fs' = download_file(f.path, o)
          /\ ok_fetches' = IF o = "ok" THEN [ok_fetches EXCEPT ![f.path] = @ + 1] ELSE ok_fetches
          /\ failures' = IF o = "ok" THEN failures ELSE failures + 1
          \* a native archive is extracted right after its download
          /\ extracted' = IF f.kind = "native" /\ o = "ok"
                          THEN extracted \cup {<<f.version_id, f.path[2]>>}
                          ELSE extracted
          /\ IF o = "ok"
             THEN Continue(t, [f EXCEPT !.pc = f.resume, !.resume = "none",
                                        !.kind = "none", !.path = <<>>], <<ev>>)
             ELSE Raise(t, "FetchError", <<ev>>)
  /\ UNCHANGED <<inheritsFrom, all_versions, completed>>

(***************************************************************************)
(* load_version_manifest(): fetch the manifest if it is not on disk, load  *)
(* it into all_versions; any exception is printed and swallowed.           *)
(***************************************************************************)
load_version_manifest ==
  /\ UNCHANGED launchVars
  /\ \A t \in Threads : result[t] # "running"
  /\ IF isfile(version_manifest_path)
     THEN /\ all_versions' = IF readable(version_manifest_path) THEN ManifestIds ELSE all_versions
          /\ UNCHANGED <<fs, ok_fetches, failures>>
     ELSE \E o \in DownloadOutcomes :
            /\ CanFail(o)
            /\ fs' = download_file(version_manifest_path, o)
            /\ ok_fetches' = IF o = "ok" THEN [ok_fetches EXCEPT ![version_manifest_path] = @ + 1]
                             ELSE ok_fetches
            /\ failures' = IF o = "ok" THEN failures ELSE failures + 1
            /\ all_versions' = IF o = "ok" THEN ManifestIds ELSE all_versions
  /\ UNCHANGED <<inheritsFrom, extracted, stack, result, error, log, completed>>

(***************************************************************************)
(* install_version(version_id), one action per statement group that makes  *)
(* at most one download_file call.                                         *)
(***************************************************************************)

\* a caller invokes install_version(v) on thread t
install_version(t, v) ==
  /\ result[t] # "running"
  /\ launching' = [launching EXCEPT ![t] = NoLaunch]
  /\ main_class' = [main_class EXCEPT ![t] = NoMainClass]
  /\ launch_libs' = [launch_libs EXCEPT ![t] = <<>>]
  /\ classpath' = [classpath EXCEPT ![t] = {}]
  /\ spawned' = [spawned EXCEPT ![t] = FALSE]
  /\ command' = [command EXCEPT ![t] = <<>>]
  /\ command_21' = [command_21 EXCEPT ![t] = <<>>]
  /\ options' = [options EXCEPT ![t] = NoOptions]
  /\ stack' = [stack EXCEPT ![t] = <<NewFrame(v)>>]
  /\ result' = [result EXCEPT ![t] = "running"]
  /\ error' = [error EXCEPT ![t] = "none"]
  /\ log' = [log EXCEPT ![t] = <<Event("call", v, "install", <<>>, 1, v \in completed)>>]
  /\ UNCHANGED <<inheritsFrom, all_versions, fs, extracted, completed, ok_fetches, failures>>

\* a presence test that never finds the descriptor
version_json_never_present(v) == FALSE
\* if not os.path.isfile(version_json_path): look the id up, fetch the descriptor
version_json_present(v) == isfile(version_json_path(v))

InstallJson(t) ==
  /\ UNCHANGED launchVars
  /\ At(t, "json")
  /\ LET v == Top(t).version_id
     IN IF ~version_json_present(v) /\ v \notin all_versions
        THEN /\ Raise(t, "UnknownVersion", <<>>)
             /\ UNCHANGED <<fs, ok_fetches, failures>>
        ELSE IF version_json_present(v)
        THEN /\ Found(t, "json", version_json_path(v), [Top(t) EXCEPT !.pc = "load"])
             /\ UNCHANGED <<fs, ok_fetches, failures>>
        \* os.makedirs(version_folder, exist_ok=True), then download_file
        ELSE /\ EnterDownload(t, "json", version_json_path(v), [Top(t) EXCEPT !.pc = "load"])
             /\ fs' = [fs EXCEPT ![version_folder(v)] = "dir"]
             /\ UNCHANGED <<ok_fetches, failures>>
  /\ UNCHANGED <<inheritsFrom, all_versions, extracted, completed>>

\* json.load(version_json_path); parent_id = version_data.get("inheritsFrom");
\* if parent_id: install_version(parent_id, ...)
InstallLoad(t) ==
  /\ UNCHANGED launchVars
  /\ At(t, "load")
  /\ LET v == Top(t).version_id
         parent_id == inheritsFrom[v]
     IN IF ~readable(version_json_path(v))
        THEN Raise(t, "JSONDecodeError", <<>>)
        ELSE IF parent_id = NoParent
        THEN Continue(t, [Top(t) EXCEPT !.pc = "jar"], <<>>)
        ELSE IF Depth(t) >= RecursionLimit
        THEN Raise(t, "RecursionError", <<>>)
        ELSE /\ stack' = [stack EXCEPT ![t] =
                            Append(SetTop(t, [Top(t) EXCEPT !.pc = "parent"])[t], NewFrame(parent_id))]
             /\ log' = [log EXCEPT ![t] = Append(@, Event("call", parent_id, "install", <<>>,
                                                         Depth(t) + 1, parent_id \in completed))]
             /\ UNCHANGED <<result, error>>
  /\ UNCHANGED <<inheritsFrom, all_versions, fs, extracted, completed, ok_fetches, failures>>

\* the recursive call has returned: parent_data = json.load(parent_json_path)
InstallParentLoaded(t) ==
  /\ UNCHANGED launchVars
  /\ At(t, "parent_returned")
  /\ LET parent_id == inheritsFrom[Top(t).version_id]
     IN IF ~readable(version_json_path(parent_id))
        THEN Raise(t, "JSONDecodeError", <<>>)
        ELSE Continue(t, [Top(t) EXCEPT !.pc = "jar", !.parent_data = parent_id], <<>>)
  /\ UNCHANGED <<inheritsFrom, all_versions, fs, extracted, completed, ok_fetches, failures>>

\* parent_data.get("libraries", [])
parent_libraries(parent) == IF parent = NoParent THEN <<>> ELSE Descriptor(parent).libraries

\* libraries = version_data.get("libraries", []) + parent_data.get("libraries", [])
install_libraries(v, parent) == Descriptor(v).libraries \o parent_libraries(parent)

\* client_info and not os.path.isfile(version_jar_path) [and client_url]
InstallJar(t) ==
  /\ UNCHANGED launchVars
  /\ At(t, "jar")
  /\ LET v == Top(t).version_id
         next == [Top(t) EXCEPT !.pc = "libs", !.i = 1,
                                !.libraries = install_libraries(v, Top(t).parent_data)]
     IN IF Descriptor(v).client
        THEN FetchIfAbsent(t, "jar", version_jar_path(v), isfile(version_jar_path(v)), next)
        ELSE /\ Continue(t, next, <<>>)
             /\ UNCHANGED <<fs, ok_fetches, failures>>
  /\ UNCHANGED <<inheritsFrom, all_versions, extracted, completed>>

\* for i, lib in enumerate(libraries): rules, then the artifact
InstallLibrary(t) ==
  /\ UNCHANGED launchVars
  /\ At(t, "libs")
  /\ LET f == Top(t)
     IN IF f.i > Len(f.libraries)
        THEN /\ Continue(t, [f EXCEPT !.pc = "index"], <<>>)
             /\ UNCHANGED <<fs, ok_fetches, failures>>
        ELSE LET lib == Library(f.libraries[f.i])
             IN IF ~install_allowed(lib.rules, current_os)
                THEN /\ Continue(t, [f EXCEPT !.i = @ + 1], <<>>)
                     /\ UNCHANGED <<fs, ok_fetches, failures>>
                ELSE IF lib.artifact = NoPath
                THEN /\ Continue(t, [f EXCEPT !.pc = "native"], <<>>)
                     /\ UNCHANGED <<fs, ok_fetches, failures>>
                ELSE FetchIfAbsent(t, "library", lib_path(lib.artifact),
                                   isfile(lib_path(lib.artifact)), [f EXCEPT !.pc = "native"])
  /\ UNCHANGED <<inheritsFrom, all_versions, extracted, completed>>

\* the native archive of the library: fetch if missing, then extract; a failed
\* extraction is printed as a warning and the loop goes on
InstallNative(t) ==
  /\ UNCHANGED launchVars
  /\ At(t, "native")
  /\ LET f == Top(t)
         lib == Library(f.libraries[f.i])
         next == [f EXCEPT !.pc = "libs", !.i = @ + 1]
     IN IF lib.native = NoPath
        THEN /\ Continue(t, next, <<>>)
             /\ UNCHANGED <<fs, ok_fetches, failures, extracted>>
        ELSE /\ FetchIfAbsent(t, "native", lib_path(lib.native), isfile(lib_path(lib.native)), next)
             \* an archive found on disk is extracted at once
             /\ extracted' = IF readable(lib_path(lib.native))
                             THEN extracted \cup {<<f.version_id, lib.native>>}
                             ELSE extracted
  /\ UNCHANGED <<inheritsFrom, all_versions, completed>>

\* asset_index_info = version_data.get("assetIndex") or parent_data.get("assetIndex")
asset_index_info(v, parent) ==
  IF Descriptor(v).assetIndex # NoIndex THEN Descriptor(v).assetIndex
  ELSE IF parent = NoParent THEN NoIndex
  ELSE Descriptor(parent).assetIndex

\* fetch the asset index if it is not on disk
InstallIndex(t) ==
  /\ UNCHANGED launchVars
  /\ At(t, "index")
  /\ LET f == Top(t)
         id == asset_index_info(f.version_id, f.parent_data)
     IN IF id = NoIndex
        THEN /\ Continue(t, [f EXCEPT !.pc = "complete"], <<>>)
             /\ UNCHANGED <<fs, ok_fetches, failures>>
        ELSE FetchIfAbsent(t, "index", idx_dest(id), isfile(idx_dest(id)),
                           [f EXCEPT !.pc = "index_load", !.idx = id])
  /\ UNCHANGED <<inheritsFrom, all_versions, extracted, completed>>

\* idx_data = json.load(idx_dest)
InstallIndexLoad(t) ==
  /\ UNCHANGED launchVars
  /\ At(t, "index_load")
  /\ IF ~readable(idx_dest(Top(t).idx))
     THEN Raise(t, "JSONDecodeError", <<>>)
     ELSE Continue(t, [Top(t) EXCEPT !.pc = "assets", !.j = 1], <<>>)
  /\ UNCHANGED <<inheritsFrom, all_versions, fs, extracted, completed, ok_fetches, failures>>

\* presence tests that ignore the disk
asset_missing_never(h) == FALSE
asset_missing_always(h) == TRUE
\* not os.path.isfile(asset_path), the test before an asset object is fetched
asset_missing(h) == ~isfile(asset_path(h))

\* for asset_name, info in idx_data["objects"].items()
InstallAsset(t) ==
  /\ UNCHANGED launchVars
  /\ At(t, "assets")
  /\ LET f == Top(t)
         objects == AssetIndex(f.idx)
     IN IF f.j > Len(objects)
        THEN /\ Continue(t, [f EXCEPT !.pc = "complete"], <<>>)
             /\ UNCHANGED <<fs, ok_fetches, failures>>
        ELSE LET h == objects[f.j].hash
             IN IF h = NoHash
                THEN /\ Continue(t, [f EXCEPT !.j = @ + 1], <<>>)
                     /\ UNCHANGED <<fs, ok_fetches, failures>>
                ELSE FetchIfAbsent(t, "asset", asset_path(h), ~asset_missing(h),
                                   [f EXCEPT !.j = @ + 1])
  /\ UNCHANGED <<inheritsFrom, all_versions, extracted, completed>>

\* the skinVersion patch (it rewrites a field nothing here reads, inside a
\* try/except), the completion message, and the return to the caller
InstallComplete(t) ==
  /\ UNCHANGED launchVars
  /\ At(t, "complete")
  /\ LET v == Top(t).version_id
         rest == SubSeq(stack[t], 1, Len(stack[t]) - 1)
     IN /\ completed' = completed \cup {v}
        /\ log' = [log EXCEPT ![t] = Append(@, Event("return", v, "install", <<>>, Depth(t), FALSE))]
        /\ IF rest = <<>>
           THEN /\ stack' = [stack EXCEPT ![t] = <<>>]
                \* back in launch_game, when it made the call
                /\ result' = [result EXCEPT ![t] =
                                IF launching[t] = NoLaunch THEN "returned" ELSE "running"]
           ELSE /\ stack' = [stack EXCEPT ![t] =
                               [rest EXCEPT ![Len(rest)] = [@ EXCEPT !.pc = "parent_returned"]]]
                /\ UNCHANGED result
  /\ UNCHANGED <<inheritsFrom, all_versions, fs, extracted, error, ok_fetches, failures>>

(***************************************************************************)
(* launch_game(version_id, account, ...) of Cat4k.py: install, then build  *)
(* the class path from the descriptor and its parent's, then spawn.        *)
(***************************************************************************)
\* launch_game is called: up to "install_version(version_id, ...)"
launch_game(t, v) ==
  /\ result[t] # "running"
  /\ launching' = [launching EXCEPT ![t] = v]
  /\ main_class' = [main_class EXCEPT ![t] = NoMainClass]
  /\ launch_libs' = [launch_libs EXCEPT ![t] = <<>>]
  /\ classpath' = [classpath EXCEPT ![t] = {}]
  /\ spawned' = [spawned EXCEPT ![t] = FALSE]
  /\ command' = [command EXCEPT ![t] = <<>>]
  /\ command_21' = [command_21 EXCEPT ![t] = <<>>]
  /\ options' = [options EXCEPT ![t] = NoOptions]
  /\ stack' = [stack EXCEPT ![t] = <<NewFrame(v)>>]
  /\ result' = [result EXCEPT ![t] = "running"]
  /\ error' = [error EXCEPT ![t] = "none"]
  /\ log' = [log EXCEPT ![t] = <<Event("call", v, "install", <<>>, 1, v \in completed)>>]
  /\ UNCHANGED <<inheritsFrom, all_versions, fs, extracted, completed, ok_fetches, failures>>

LaunchIdle ==
  /\ launching = [t \in Threads |-> NoLaunch]
  /\ main_class = [t \in Threads |-> NoMainClass]
  /\ launch_libs = [t \in Threads |-> <<>>]
  /\ classpath = [t \in Threads |-> {}]
  /\ spawned = [t \in Threads |-> FALSE]
  /\ command = [t \in Threads |-> <<>>]
  /\ command_21 = [t \in Threads |-> <<>>]
  /\ options = [t \in Threads |-> NoOptions]

InstallIdle ==
  /\ inheritsFrom = [v \in Versions |-> NoParent]
  /\ all_versions = {}
  /\ fs = [p \in Paths |-> "absent"]
  /\ extracted = {}
  /\ stack = [t \in Threads |-> <<>>]
  /\ result = [t \in Threads |-> "idle"]
  /\ error = [t \in Threads |-> "none"]
  /\ log = [t \in Threads |-> <<>>]
  /\ completed = {}
  /\ ok_fetches = [p \in Paths |-> 0]
  /\ failures = 0

\* the state at start-up: nothing is loaded; the local-only descriptor may be
\* on disk
InstallInit ==
  /\ inheritsFrom \in ParentMaps
  /\ all_versions = {}
  /\ \E local \in {"absent", "complete"} :
       fs = [p \in Paths |->
               IF p = version_json_path("v3") THEN local
               ELSE IF p = version_folder("v3") /\ local = "complete" THEN "dir"
               ELSE "absent"]
  /\ extracted = {}
  /\ stack = [t \in Threads |-> <<>>]
  /\ result = [t \in Threads |-> "idle"]
  /\ error = [t \in Threads |-> "none"]
  /\ log = [t \in Threads |-> <<>>]
  /\ completed = {}
  /\ ok_fetches = [p \in Paths |-> 0]
  /\ failures = 0

(***************************************************************************)
(* Argument tokens and str.format.                                         *)
(* A string is modelled as the sequence of its pieces: the characters "$", *)
(* "{" and "}" one by one, and every maximal run of other characters as    *)
(* one word.  No word of the model is part of another, so for a dictionary *)
(* key k, "k in arg" holds exactly when k is a piece of arg.               *)
(***************************************************************************)
Words == {"auth_player_name", "--username"}
Pieces == {"$", "{", "}"} \cup Words

\* the tokens drawn: every short token, and some longer ones
Tokens ==
  SeqsUpTo(Pieces, MaxTokenLen)
  \cup { <<"$", "{", "nokey", "}">>,
         <<"$", "{", "auth_access_token", "}">>,
         <<"$", "{", "auth_player_name", "}", "$", "{", "auth_player_name", "}">>,
         <<"--username", "$", "{", "auth_player_name", "}", "$", "{", "auth_uuid", "}">> }

\* str(uuid3(NAMESPACE_DNS, username)): a function of the name
offline_uuid(username) == IF username = "Steve" THEN "uuid-steve" ELSE "uuid-alex"

NoPassword == ""

\* the entry add_account(acc_type, email_username, password_token) stores;
\* "token": password_token or "null" if acc_type in [...] else "0" parses as
\* (password_token or "null") if acc_type in [...] else "0"
add_account(acc_type, username, password_token) ==
  [type |-> acc_type, username |-> username, uuid |-> offline_uuid(username),
   token |-> IF acc_type \in {"tlauncher", "microsoft"}
             THEN (IF password_token # NoPassword THEN password_token ELSE "null")
             ELSE "0",
   client |-> IF acc_type = "lunar" THEN "lunar" ELSE "None"]

\* an entry of launcher_accounts.json that add_account did not write (the file
\* is loaded as it is): an offline entry that carries a token
StoredAccounts ==
  { [type |-> "offline", username |-> "Steve", uuid |-> "uuid-steve",
     token |-> "stored-token", client |-> "None"] }

Accounts ==
  { add_account("offline", "Steve", "secret"),
    add_account("microsoft", "Alex", "token-alex"),
    add_account("tlauncher", "Alex", NoPassword) }
  \cup StoredAccounts

\* the replacements dictionary of Cat4k.py launch_game; every value is a string
\* of one word
replacements(acc, version_id, index_id, version_type, lunar_client) ==
  [k \in {"auth_player_name", "version_name", "game_directory", "assets_root",
          "assets_index_name", "auth_uuid", "auth_access_token", "user_type",
          "version_type", "natives_directory", "classpath_separator",
          "launcher_name", "launcher_version"} |->
     CASE k = "auth_player_name" -> <<acc.username>>
       [] k = "version_name" -> <<version_id>>
       [] k = "game_directory" -> <<"game_dir">>
       [] k = "assets_root" -> <<"assets_dir">>
       [] k = "assets_index_name" -> <<index_id>>
       [] k = "auth_uuid" -> <<acc.uuid>>
       [] k = "auth_access_token" -> <<acc.token>>
       [] k = "user_type" -> <<IF acc.type = "microsoft" THEN "msa" ELSE "legacy">>
       [] k = "version_type" -> <<version_type>>
       [] k = "natives_directory" -> <<"natives_dir">>
       [] k = "classpath_separator" -> <<":">>
       [] k = "launcher_name" -> <<IF lunar_client THEN "LunarClient" ELSE "CatClient">>
       [] k = "launcher_version" -> <<"0.1.0">>]

\* the dictionary of CAT2.1.X.py and Client.py: its keys are the whole
\* placeholders "${auth_player_name}", ..., none of them a format field name
replacements_21(acc, version_id, index_id, version_type, lunar_client) ==
  [k \in {"${auth_player_name}", "${version_name}", "${game_directory}", "${assets_root}",
          "${assets_index_name}", "${auth_uuid}", "${auth_access_token}", "${user_type}",
          "${version_type}", "${natives_directory}", "${classpath_separator}",
          "${launcher_name}", "${launcher_version}"} |->
     CASE k = "${auth_player_name}" -> <<acc.username>>
       [] k = "${version_name}" -> <<version_id>>
       [] k = "${game_directory}" -> <<"game_dir">>
       [] k = "${assets_root}" -> <<"assets_dir">>
       [] k = "${assets_index_name}" -> <<index_id>>
       [] k = "${auth_uuid}" -> <<acc.uuid>>
       [] k = "${auth_access_token}" -> <<IF acc.type # "offline" THEN acc.token ELSE "0">>
       [] k = "${user_type}" -> <<IF acc.type = "microsoft" THEN "msa" ELSE "legacy">>
       [] k = "${version_type}" -> <<version_type>>
       [] k = "${natives_directory}" -> <<"natives_dir">>
       [] k = "${classpath_separator}" -> <<":">>
       [] k = "${launcher_name}" ->
            <<IF lunar_client /\ acc.type # "offline" THEN "LunarClient" ELSE "CatClient">>
       [] k = "${launcher_version}" -> <<"0.1.0">>]

Min(S) == CHOOSE x \in S : \A y \in S : x <= y

FormatOk(val) == [err |-> "none", val |-> val]
FormatError(e) == [err |-> e, val |-> <<>>]
\* the text before an error is lost with it
Emit(val, rest) == IF rest.err = "none" THEN FormatOk(val \o rest.val) ELSE rest

RECURSIVE FormatFrom(_, _, _)
\* str.format(**kw) on tok, from piece k on: "{{" and "}}" are literal braces,
\* "{name}" is replaced by kw[name] (KeyError when absent, IndexError for the
\* empty name "{}" as no positional argument is passed), a brace that opens or
\* closes nothing is a ValueError; the scan stops at the first error
FormatFrom(tok, k, kw) ==
  IF k > Len(tok) THEN FormatOk(<<>>)
  ELSE IF tok[k] = "{"
  THEN IF k < Len(tok) /\ tok[k + 1] = "{"
       THEN Emit(<<"{">>, FormatFrom(tok, k + 2, kw))
       ELSE LET closing == {c \in (k + 1)..Len(tok) : tok[c] = "}"}
            IN IF closing = {} THEN FormatError("ValueError")
               ELSE LET c == Min(closing)
                        field == SubSeq(tok, k + 1, c - 1)
                    IN IF \E n \in 1..Len(field) : field[n] = "{" THEN FormatError("ValueError")
                       ELSE IF field = <<>> THEN FormatError("IndexError")
                       ELSE IF Len(field) = 1 /\ field[1] \in DOMAIN kw
                       THEN Emit(kw[field[1]], FormatFrom(tok, c + 1, kw))
                       ELSE FormatError("KeyError")
  ELSE IF tok[k] = "}"
  THEN IF k < Len(tok) /\ tok[k + 1] = "}"
       THEN Emit(<<"}">>, FormatFrom(tok, k + 2, kw))
       ELSE FormatError("ValueError")
  ELSE Emit(<<tok[k]>>, FormatFrom(tok, k + 1, kw))

format(tok, kw) == FormatFrom(tok, 1, kw)

\* {k: v for k, v in replacements.items() if k in arg}
present_keys(tok, kw) ==
  [k \in {x \in DOMAIN kw : \E n \in 1..Len(tok) : tok[n] = x} |-> kw[k]]

\* a literal token in Cat4k.py:
\*   try: args.append(arg.format(**{...}))  except KeyError: print warning
\* outcome "appended" with the text, "skipped", or "raised" with the exception
expand_literal(tok, kw) ==
  LET r == format(tok, present_keys(tok, kw))
  IN IF r.err = "none" THEN [outcome |-> "appended", val |-> r.val, err |-> "none"]
     ELSE IF r.err = "KeyError" THEN [outcome |-> "skipped", val |-> <<>>, err |-> "none"]
     ELSE [outcome |-> "raised", val |-> <<>>, err |-> r.err]

\* a literal token in CAT2.1.X.py and Client.py: arg.format(**replacements),
\* with no try around it
expand_literal_21(tok, kw) ==
  LET r == format(tok, kw)
  IN IF r.err = "none" THEN [outcome |-> "appended", val |-> r.val, err |-> "none"]
     ELSE [outcome |-> "raised", val |-> <<>>, err |-> r.err]

\* the worker threads the window can start, and a thread not started yet
Workers == 1..MaxWorkers
NoTask == [pc |-> "idle", item |-> "none", is_modpack |-> FALSE, ended |-> "none"]

GuiIdle ==
  /\ program = "none"
  /\ launch_btn = "normal"
  /\ is_launching = FALSE
  /\ after_queue = <<>>
  /\ task = [w \in Workers |-> NoTask]
  /\ released = {}

ArgsIdle ==
  /\ arg = <<>>
  /\ arguments = [v \in Versions |-> Arguments(v)]
  /\ account = add_account("offline", "Steve", NoPassword)
  /\ expanded = <<>>
  /\ expanded_21 = <<>>

ArgsInit ==
  /\ arg \in Tokens
  /\ arguments = [v \in Versions |-> Arguments(v)]
  /\ account \in Accounts
  /\ expanded = <<>>
  /\ expanded_21 = <<>>

\* launch_game of Cat4k.py expands the token
ExpandCat4k ==
  /\ expanded = <<>>
  /\ expanded' = <<expand_literal(arg, replacements(account, "v1", "idx1", "release", FALSE))>>
  /\ UNCHANGED <<arg, arguments, account, expanded_21>>

\* launch_game of CAT2.1.X.py / Client.py expands the token
ExpandCat21 ==
  /\ expanded_21 = <<>>
  /\ expanded_21' =
       <<expand_literal_21(arg, replacements_21(account, "v1", "idx1", "release", FALSE))>>
  /\ UNCHANGED <<arg, arguments, account, expanded>>

(***************************************************************************)
(* launch_game after install_version has returned: the main class, the     *)
(* class path and the command list.                                        *)
(***************************************************************************)
\* main_class = vdata.get("mainClass"); ... main_class or parent_data.get("mainClass")
launch_main_class(v, parent) ==
  IF Descriptor(v).mainClass # NoMainClass THEN Descriptor(v).mainClass
  ELSE IF parent = NoParent THEN NoMainClass
  ELSE Descriptor(parent).mainClass

\* vdata.get("libraries", []) + parent_data.get("libraries", [])
launch_libraries(v, parent) == Descriptor(v).libraries \o parent_libraries(parent)

\* a class path that takes the artifact of every library, whatever its rules
library_classpath_unfiltered(libs) ==
  {lib_path(Library(libs[k]).artifact) : k \in
     {n \in 1..Len(libs) : /\ Library(libs[n]).artifact # NoPath
                           /\ isfile(lib_path(Library(libs[n]).artifact))}}

\* the artifacts of the allowed libraries that are files
library_classpath(libs) ==
  {lib_path(Library(libs[k]).artifact) : k \in
     {n \in 1..Len(libs) : /\ lib_rules_allow(Library(libs[n]).rules, current_os)
                           /\ Library(libs[n]).artifact # NoPath
                           /\ isfile(lib_path(Library(libs[n]).artifact))}}

\* the version jar if it is a file, else the parent's jar if that is a file
jar_classpath(v, parent) ==
  IF isfile(version_jar_path(v)) THEN {version_jar_path(v)}
  ELSE IF parent # NoParent /\ isfile(version_jar_path(parent)) THEN {version_jar_path(parent)}
  ELSE {}

\* the inputs of launch_game other than the version and the account, and what
\* the platform answers: whether the launcher process is translated by
\* Rosetta 2, whether Popen finds java
LaunchOptions ==
  [lunar_client : BOOLEAN, use_rosetta : BOOLEAN, under_rosetta : BOOLEAN,
   server_ip : BOOLEAN, port : BOOLEAN, java_found : BOOLEAN]

IS_MAC == current_os = "osx"

\* platform.machine(): current_arch as the running OS spells it
machine ==
  IF current_arch = "x86" THEN "x86_64"
  ELSE CASE current_os = "osx" -> "arm64"
         [] current_os = "linux" -> "aarch64"
         [] current_os = "windows" -> "ARM64"

\* platform.machine().lower() in ('arm64', 'aarch64')
is_arm64 == machine \in {"arm64", "aarch64", "ARM64"}

\* a translated process exists on macOS only, and platform.machine() answers
\* x86_64 inside it
PlatformOptions == {o \in LaunchOptions : o.under_rosetta => (IS_MAC /\ current_arch = "x86")}

\* sysctl -n sysctl.proc_translated prints 1 (never outside macOS)
detect_rosetta(opts) == IS_MAC /\ opts.under_rosetta

\* the translation prefix
Wrapper == <<[part |-> "wrapper", text |-> <<"arch">>], [part |-> "wrapper", text |-> <<"-x86_64">>]>>

\* a run_with_rosetta that prefixes whatever the host is
run_with_rosetta_always(opts, cmd) == Wrapper \o cmd

\* if IS_MAC and is_arm64() and not detect_rosetta(): return ['arch', '-x86_64'] + cmd
run_with_rosetta(opts, cmd) ==
  IF IS_MAC /\ is_arm64 /\ ~detect_rosetta(opts) THEN Wrapper \o cmd ELSE cmd

\* an element of the command list: its text, and the statement it comes from
Elem(part, text) == [part |-> part, text |-> text]

\* jvm_args = ["-Xmx...", "-Djava.library.path=..."], extended on arm64 and
\* for the Lunar client
fixed_jvm_args(opts) ==
  <<Elem("fixed", <<"-Xmx">>), Elem("fixed", <<"-Djava.library.path">>)>>
  \o (IF is_arm64
      THEN <<Elem("arm64", <<"-XX:+UseG1GC">>), Elem("arm64", <<"-XX:MaxGCPauseMillis=200">>),
             Elem("arm64", <<"-XX:ParallelGCThreads=4">>),
             Elem("arm64", <<"-Dapple.awt.application.name=Cat Client">>)>>
      ELSE <<>>)
  \o (IF opts.lunar_client
      THEN <<Elem("lunar", <<"-Dfml.ignoreInvalidMinecraftCertificates=true">>),
             Elem("lunar", <<"-Dorg.lwjgl.opengl.Display.allowSoftwareOpenGL=true">>)>>
      ELSE <<>>)

\* the Lunar client replaces the vanilla entry point
effective_main_class(mc, opts) ==
  IF opts.lunar_client /\ mc = "net.minecraft.client.main.Main"
  THEN "com.moonsworth.lunar.genesis.Genesis"
  ELSE mc

\* args_data.get("jvm", parent_args_data.get("jvm", []))
raw_jvm_args(v, parent) ==
  IF arguments[v].has_jvm THEN arguments[v].jvm
  ELSE IF parent # NoParent /\ arguments[parent].has_jvm THEN arguments[parent].jvm
  ELSE <<>>

\* args_data.get("game", parent_args_data.get("game", [])), and the legacy
\* "minecraftArguments" of the version itself when that list is empty
raw_game_args(v, parent) ==
  LET modern == IF arguments[v].has_game THEN arguments[v].game
                ELSE IF parent # NoParent /\ arguments[parent].has_game
                THEN arguments[parent].game
                ELSE <<>>
  IN IF modern = <<>> /\ arguments[v].legacy # <<>> THEN arguments[v].legacy ELSE modern

\* (vdata.get("assetIndex") or parent_data.get("assetIndex", {})).get("id", "legacy")
assets_index_name(v, parent) ==
  IF asset_index_info(v, parent) = NoIndex THEN "legacy" ELSE asset_index_info(v, parent)

\* whether a conditional token is taken.  jvm: isinstance(arg, dict) and
\* any(r["action"] == "allow" for r in arg.get("rules", [])); game:
\* isinstance(arg, dict) and "value" in arg
conditional_included(raw, part) ==
  IF part = "jvm" THEN \E i \in 1..Len(raw.rules) : raw.rules[i].action = "allow"
  ELSE TRUE

RECURSIVE expand_value(_, _)
\* try: for v in value: args.append(v.format(**replacements))
\* except KeyError: print warning
\* the strings appended before the KeyError stay in the list; another
\* exception leaves launch_game
expand_value(value, kw) ==
  IF value = <<>> THEN [vals |-> <<>>, err |-> "none"]
  ELSE LET r == format(Head(value), kw)
       IN IF r.err = "none"
          THEN LET rest == expand_value(Tail(value), kw)
               IN [vals |-> <<r.val>> \o rest.vals, err |-> rest.err]
          ELSE IF r.err = "KeyError" THEN [vals |-> <<>>, err |-> "none"]
          ELSE [vals |-> <<>>, err |-> r.err]

\* one pass of the loop body over a raw token: the strings it appends and the
\* exception it raises ("none" if none)
expand_arg(raw, kw, part) ==
  IF raw.kind = "str"
  THEN LET r == expand_literal(raw.text, kw)
       IN [vals |-> IF r.outcome = "appended" THEN <<r.val>> ELSE <<>>, err |-> r.err]
  ELSE IF conditional_included(raw, part) THEN expand_value(raw.value, kw)
  ELSE [vals |-> <<>>, err |-> "none"]

RECURSIVE expand_all(_, _, _)
\* the loop over the raw tokens: what it appends
expand_all(raws, kw, part) ==
  IF raws = <<>> THEN <<>>
  ELSE LET vals == expand_arg(Head(raws), kw, part).vals
       IN [k \in 1..Len(vals) |-> Elem(part, vals[k])] \o expand_all(Tail(raws), kw, part)

\* the exception that leaves the loop, "none" if there is none
expand_error(raws, kw, part) ==
  LET bad == {k \in 1..Len(raws) : expand_arg(raws[k], kw, part).err # "none"}
  IN IF bad = {} THEN "none" ELSE expand_arg(raws[Min(bad)], kw, part).err

\* a command list with the classpath flag put first among the JVM arguments
command_line_cp_first(opts, mc, jvm, game) ==
  <<Elem("java", <<"java">>), Elem("cp_flag", <<"-cp">>), Elem("cp_value", <<"classpath">>)>>
  \o fixed_jvm_args(opts) \o jvm \o <<Elem("main", <<mc>>)>> \o game

\* a launch that adds no server arguments
server_args_none(opts) == <<>>

\* if server_ip: game_args.extend(["--server", server_ip]);
\*                if port: game_args.extend(["--port", str(port)])
server_args(opts) ==
  IF opts.server_ip
  THEN <<Elem("server", <<"--server">>), Elem("server", <<"server_ip">>)>>
       \o (IF opts.port THEN <<Elem("server", <<"--port">>), Elem("server", <<"port">>)>>
           ELSE <<>>)
  ELSE <<>>

\* jvm_args.extend(["-cp", ...]); command = [java_path] + jvm_args + [main_class]
\* + game_args (with --server appended); run_with_rosetta prepends arch -x86_64
command_line(opts, mc, jvm, game) ==
  LET jvm_args == fixed_jvm_args(opts) \o jvm
                  \o <<Elem("cp_flag", <<"-cp">>), Elem("cp_value", <<"classpath">>)>>
      game_args == game \o server_args(opts)
      cmd == <<Elem("java", <<"java">>)>> \o jvm_args \o <<Elem("main", <<mc>>)>> \o game_args
  IN IF opts.use_rosetta /\ IS_MAC THEN run_with_rosetta(opts, cmd) ELSE cmd

\* subprocess.Popen(command): an element that is None is a TypeError, a missing
\* executable an OSError; both are re-raised as "Failed to launch game"
popen_succeeds(opts, cmd) ==
  /\ opts.java_found
  /\ \A k \in 1..Len(cmd) : cmd[k].text # <<NoMainClass>>

\* install_version has returned: read the descriptors, build the command, spawn
LaunchSpawn(t) ==
  /\ result[t] = "running" /\ stack[t] = <<>> /\ launching[t] # NoLaunch
  /\ \E opts \in PlatformOptions :
       LET v == launching[t]
           parent == inheritsFrom[v]
           mc == effective_main_class(launch_main_class(v, parent), opts)
           kw == replacements(account, v, assets_index_name(v, parent), "release",
                              opts.lunar_client)
           jvm_error == expand_error(raw_jvm_args(v, parent), kw, "jvm")
           game_error == expand_error(raw_game_args(v, parent), kw, "game")
           cmd == command_line(opts, mc, expand_all(raw_jvm_args(v, parent), kw, "jvm"),
                               expand_all(raw_game_args(v, parent), kw, "game"))
           built == jvm_error = "none" /\ game_error = "none"
       IN /\ main_class' = [main_class EXCEPT ![t] = mc]
          /\ launch_libs' = [launch_libs EXCEPT ![t] = launch_libraries(v, parent)]
          /\ classpath' = [classpath EXCEPT ![t] =
                             library_classpath(launch_libraries(v, parent))
                               \cup jar_classpath(v, parent)]
          /\ command' = [command EXCEPT ![t] = IF built THEN cmd ELSE <<>>]
          /\ options' = [options EXCEPT ![t] = opts]
          /\ spawned' = [spawned EXCEPT ![t] = built /\ popen_succeeds(opts, cmd)]
          /\ result' = [result EXCEPT ![t] =
                          IF built /\ popen_succeeds(opts, cmd) THEN "returned" ELSE "raised"]
          /\ error' = [error EXCEPT ![t] =
                         IF jvm_error # "none" THEN jvm_error
                         ELSE IF game_error # "none" THEN game_error
                         ELSE IF popen_succeeds(opts, cmd) THEN "none"
                         ELSE "Failed to launch game"]
          /\ log' = [log EXCEPT ![t] = Append(@, Event("spawn", v, "launch", <<>>, 0,
                                                       built /\ popen_succeeds(opts, cmd)))]
  /\ UNCHANGED <<inheritsFrom, all_versions, fs, extracted, stack, completed,
                 ok_fetches, failures, launching, command_21>>

(***************************************************************************)
(* launch_game of CAT2.1.X.py after its install_version has returned: the  *)
(* command list it assembles from the same descriptors.                    *)
(***************************************************************************)
\* platform.machine() == 'arm64'
is_arm64_21 == machine = "arm64"

\* if is_arm64() and not detect_rosetta(): return ['arch', '-x86_64'] + cmd
run_with_rosetta_21(opts, cmd) ==
  IF is_arm64_21 /\ ~detect_rosetta(opts) THEN Wrapper \o cmd ELSE cmd

\* lunar_client and account["type"] != "offline"
lunar_21(opts) == opts.lunar_client /\ account.type # "offline"

fixed_jvm_args_21(opts) ==
  <<Elem("fixed", <<"-Xmx">>), Elem("fixed", <<"-Djava.library.path">>)>>
  \o (IF is_arm64_21
      THEN <<Elem("arm64", <<"-XX:+UseG1GC">>), Elem("arm64", <<"-XX:MaxGCPauseMillis=200">>),
             Elem("arm64", <<"-XX:ParallelGCThreads=4">>),
             Elem("arm64", <<"-Dapple.awt.application.name=Cat Client">>)>>
      ELSE <<>>)
  \o (IF lunar_21(opts)
      THEN <<Elem("lunar", <<"-Dfml.ignoreInvalidMinecraftCertificates=true">>),
             Elem("lunar", <<"-Dorg.lwjgl.opengl.Display.allowSoftwareOpenGL=true">>)>>
      ELSE <<>>)

\* parent_args_data.get("jvm", []) + args_data.get("jvm", [])
raw_jvm_args_21(v, parent) ==
  (IF parent # NoParent THEN arguments[parent].jvm ELSE <<>>) \o arguments[v].jvm

\* parent_args_data.get("game", []) + args_data.get("game", [])
\*   or vdata.get("minecraftArguments", "").split()
raw_game_args_21(v, parent) ==
  LET modern == (IF parent # NoParent THEN arguments[parent].game ELSE <<>>)
                \o arguments[v].game
  IN IF modern # <<>> THEN modern ELSE arguments[v].legacy

\* one raw token: a string is formatted with no try around it; a jvm object
\* whose rules allow osx evaluates the unbound name v (NameError); a game
\* object gives the first string of its value
expand_arg_21(raw, kw, part) ==
  IF raw.kind = "str"
  THEN LET r == expand_literal_21(raw.text, kw)
       IN [vals |-> IF r.outcome = "appended" THEN <<r.val>> ELSE <<>>, err |-> r.err]
  ELSE IF part = "jvm"
  THEN IF \E i \in 1..Len(raw.rules) : rule_allows(raw.rules[i], "osx")
       THEN [vals |-> <<>>, err |-> "NameError"]
       ELSE [vals |-> <<>>, err |-> "none"]
  ELSE LET r == format(raw.value[1], kw)
       IN [vals |-> IF r.err = "none" THEN <<r.val>> ELSE <<>>, err |-> r.err]

RECURSIVE expand_all_21(_, _, _)
expand_all_21(raws, kw, part) ==
  IF raws = <<>> THEN <<>>
  ELSE LET vals == expand_arg_21(Head(raws), kw, part).vals
       IN [k \in 1..Len(vals) |-> Elem(part, vals[k])] \o expand_all_21(Tail(raws), kw, part)

expand_error_21(raws, kw, part) ==
  LET bad == {k \in 1..Len(raws) : expand_arg_21(raws[k], kw, part).err # "none"}
  IN IF bad = {} THEN "none" ELSE expand_arg_21(raws[Min(bad)], kw, part).err

\* command = [java_path] + jvm_args + [main_class] + game_args;
\* if use_rosetta: command = run_with_rosetta(command).  server_ip and port
\* are parameters of the function that its body does not read
command_line_21(opts, mc, jvm, game) ==
  LET jvm_args == fixed_jvm_args_21(opts) \o jvm
                  \o <<Elem("cp_flag", <<"-cp">>), Elem("cp_value", <<"classpath">>)>>
      cmd == <<Elem("java", <<"java">>)>> \o jvm_args \o <<Elem("main", <<mc>>)>> \o game
  IN IF opts.use_rosetta THEN run_with_rosetta_21(opts, cmd) ELSE cmd

\* the launch ends as CAT2.1.X.py ends it: "net.minecraft.client.main.Main" in
\* main_class is a TypeError for None, an expansion may raise, Popen is
\* called with no try around it
LaunchSpawn21(t) ==
  /\ result[t] = "running" /\ stack[t] = <<>> /\ launching[t] # NoLaunch
  /\ \E opts \in PlatformOptions :
       LET v == launching[t]
           parent == inheritsFrom[v]
           declared == launch_main_class(v, parent)
           mc == IF lunar_21(opts) THEN effective_main_class(declared, opts) ELSE declared
           kw == replacements_21(account, v, assets_index_name(v, parent), "release",
                                 opts.lunar_client)
           main_error == IF lunar_21(opts) /\ declared = NoMainClass THEN "TypeError"
                         ELSE "none"
           jvm_error == expand_error_21(raw_jvm_args_21(v, parent), kw, "jvm")
           game_error == expand_error_21(raw_game_args_21(v, parent), kw, "game")
           cmd == command_line_21(opts, mc,
                                  expand_all_21(raw_jvm_args_21(v, parent), kw, "jvm"),
                                  expand_all_21(raw_game_args_21(v, parent), kw, "game"))
           built == main_error = "none" /\ jvm_error = "none" /\ game_error = "none"
           ok == built /\ popen_succeeds(opts, cmd)
       IN /\ command_21' = [command_21 EXCEPT ![t] = IF built THEN cmd ELSE <<>>]
          /\ options' = [options EXCEPT ![t] = opts]
          /\ result' = [result EXCEPT ![t] = IF ok THEN "returned" ELSE "raised"]
          /\ error' = [error EXCEPT ![t] =
                         IF main_error # "none" THEN main_error
                         ELSE IF jvm_error # "none" THEN jvm_error
                         ELSE IF game_error # "none" THEN game_error
                         ELSE IF ok THEN "none"
                         ELSE "PopenError"]
          /\ log' = [log EXCEPT ![t] = Append(@, Event("spawn21", v, "launch", <<>>, 0, ok))]
  /\ UNCHANGED <<inheritsFrom, all_versions, fs, extracted, stack, completed,
                 ok_fetches, failures, launching, main_class, launch_libs, classpath,
                 spawned, command>>

(***************************************************************************)
(* Specifications.                                                         *)
(***************************************************************************)
RulesNext ==
  \/ EvalInstall /\ UNCHANGED <<fetchVars, installVars, launchVars, argsVars, guiVars>>
  \/ EvalLaunch /\ UNCHANGED <<fetchVars, installVars, launchVars, argsVars, guiVars>>

InitRules ==
  /\ RulesInit
  /\ FetchIdle
  /\ InstallIdle
  /\ LaunchIdle
  /\ ArgsIdle
  /\ GuiIdle

SpecRules == InitRules /\ [][RulesNext]_vars

FetchNext ==
  \/ AttemptOk /\ UNCHANGED <<rulesVars, installVars, launchVars, argsVars, guiVars>>
  \/ (\E o \in RetryOutcomes : AttemptRetry(o)) /\ UNCHANGED <<rulesVars, installVars, launchVars, argsVars, guiVars>>
  \/ AttemptPermissionError /\ UNCHANGED <<rulesVars, installVars, launchVars, argsVars, guiVars>>
  \/ LoopExit /\ UNCHANGED <<rulesVars, installVars, launchVars, argsVars, guiVars>>

InitFetch ==
  /\ FetchInit
  /\ RulesIdle
  /\ InstallIdle
  /\ LaunchIdle
  /\ ArgsIdle
  /\ GuiIdle

SpecFetch == InitFetch /\ [][FetchNext]_vars

\* one thread installs: the GUI's worker, or a direct caller
InstallThread == 1

InstallNext ==
  \/ load_version_manifest /\ UNCHANGED <<rulesVars, fetchVars, argsVars, guiVars>>
  \/ (\E v \in Versions : install_version(InstallThread, v)) /\ UNCHANGED <<rulesVars, fetchVars, argsVars, guiVars>>
  \/ InstallJson(InstallThread) /\ UNCHANGED <<rulesVars, fetchVars, argsVars, guiVars>>
  \/ InstallDownload(InstallThread) /\ UNCHANGED <<rulesVars, fetchVars, argsVars, guiVars>>
  \/ InstallLoad(InstallThread) /\ UNCHANGED <<rulesVars, fetchVars, argsVars, guiVars>>
  \/ InstallParentLoaded(InstallThread) /\ UNCHANGED <<rulesVars, fetchVars, argsVars, guiVars>>
  \/ InstallJar(InstallThread) /\ UNCHANGED <<rulesVars, fetchVars, argsVars, guiVars>>
  \/ InstallLibrary(InstallThread) /\ UNCHANGED <<rulesVars, fetchVars, argsVars, guiVars>>
  \/ InstallNative(InstallThread) /\ UNCHANGED <<rulesVars, fetchVars, argsVars, guiVars>>
  \/ InstallIndex(InstallThread) /\ UNCHANGED <<rulesVars, fetchVars, argsVars, guiVars>>
  \/ InstallIndexLoad(InstallThread) /\ UNCHANGED <<rulesVars, fetchVars, argsVars, guiVars>>
  \/ InstallAsset(InstallThread) /\ UNCHANGED <<rulesVars, fetchVars, argsVars, guiVars>>
  \/ InstallComplete(InstallThread) /\ UNCHANGED <<rulesVars, fetchVars, argsVars, guiVars>>

InitInstall ==
  /\ InstallInit
  /\ LaunchIdle
  /\ RulesIdle
  /\ FetchIdle
  /\ ArgsIdle
  /\ GuiIdle

SpecInstall == InitInstall /\ [][InstallNext]_vars

\* two callers run install_version at the same time on one game directory (two
\* launcher processes, or two threads of a caller; the GUI itself disables its
\* launch button while its worker thread runs): each installs one version, and
\* the two versions differ
ConcurrentInstall(t, v) ==
  /\ Len(log[t]) = 0
  /\ \A u \in Threads \ {t} : IF Len(log[u]) = 0 THEN TRUE ELSE log[u][1].v # v
  /\ install_version(t, v)

ConcurrentNext ==
  \/ (\E t \in Threads, v \in Versions : ConcurrentInstall(t, v))
       /\ UNCHANGED <<rulesVars, fetchVars, argsVars, guiVars>>
  \/ (\E t \in Threads : InstallJson(t)) /\ UNCHANGED <<rulesVars, fetchVars, argsVars, guiVars>>
  \/ (\E t \in Threads : InstallDownload(t)) /\ UNCHANGED <<rulesVars, fetchVars, argsVars, guiVars>>
  \/ (\E t \in Threads : InstallLoad(t)) /\ UNCHANGED <<rulesVars, fetchVars, argsVars, guiVars>>
  \/ (\E t \in Threads : InstallParentLoaded(t)) /\ UNCHANGED <<rulesVars, fetchVars, argsVars, guiVars>>
  \/ (\E t \in Threads : InstallJar(t)) /\ UNCHANGED <<rulesVars, fetchVars, argsVars, guiVars>>
  \/ (\E t \in Threads : InstallLibrary(t)) /\ UNCHANGED <<rulesVars, fetchVars, argsVars, guiVars>>
  \/ (\E t \in Threads : InstallNative(t)) /\ UNCHANGED <<rulesVars, fetchVars, argsVars, guiVars>>
  \/ (\E t \in Threads : InstallIndex(t)) /\ UNCHANGED <<rulesVars, fetchVars, argsVars, guiVars>>
  \/ (\E t \in Threads : InstallIndexLoad(t)) /\ UNCHANGED <<rulesVars, fetchVars, argsVars, guiVars>>
  \/ (\E t \in Threads : InstallAsset(t)) /\ UNCHANGED <<rulesVars, fetchVars, argsVars, guiVars>>
  \/ (\E t \in Threads : InstallComplete(t)) /\ UNCHANGED <<rulesVars, fetchVars, argsVars, guiVars>>

\* the state when the two runs start: the manifest has been loaded (the GUI
\* does so at start-up), no download is going to fail, and the descriptors either declare
\* no parent or make the local-only version the parent of "v2"
ConcurrentInit ==
  /\ inheritsFrom \in {m \in ParentMaps : m["v3"] = NoParent /\ m["v2"] \in {NoParent, "v3"}}
  /\ all_versions = ManifestIds
  /\ \E local \in {"absent", "complete"} :
       fs = [p \in Paths |->
               IF p = version_manifest_path THEN "complete"
               ELSE IF p = version_json_path("v3") THEN local
               ELSE IF p = version_folder("v3") /\ local = "complete" THEN "dir"
               ELSE "absent"]
  /\ extracted = {}
  /\ stack = [t \in Threads |-> <<>>]
  /\ result = [t \in Threads |-> "idle"]
  /\ error = [t \in Threads |-> "none"]
  /\ log = [t \in Threads |-> <<>>]
  /\ completed = {}
  /\ ok_fetches = [p \in Paths |-> 0]
  /\ failures = MaxFailures

InitConcurrent ==
  /\ ConcurrentInit
  /\ LaunchIdle
  /\ RulesIdle
  /\ FetchIdle
  /\ ArgsIdle
  /\ GuiIdle

SpecConcurrent == InitConcurrent /\ [][ConcurrentNext]_vars

\* launch_game on a game directory that holds every file (earlier runs have
\* installed the versions), on any platform and for any account
\* the accounts launch_game is called with: an offline and an online one
LaunchAccounts == StoredAccounts \cup {add_account("microsoft", "Alex", "token-alex")}

\* the disk after every version has been installed
InstalledTree ==
  [p \in Paths |->
     IF p \in {version_folder(v) : v \in Versions} THEN "dir"
     ELSE IF p \in {version_jar_path(v) : v \in {w \in Versions : ~Descriptor(w).client}}
     THEN "absent"
     ELSE "complete"]

\* the same disk after the artifact of libA was removed
DamagedTree == [InstalledTree EXCEPT ![lib_path("a.jar")] = "absent"]

LaunchInit ==
  /\ inheritsFrom \in ParentMaps
  /\ all_versions = ManifestIds
  /\ extracted = {}
  /\ stack = [t \in Threads |-> <<>>]
  /\ result = [t \in Threads |-> "idle"]
  /\ error = [t \in Threads |-> "none"]
  /\ log = [t \in Threads |-> <<>>]
  /\ completed = {}
  /\ ok_fetches = [p \in Paths |-> 0]
  /\ failures = 0
  /\ rules = <<>> /\ allowed = <<>> /\ lib_allowed = <<>>
  /\ current_os \in OSNames
  /\ current_arch \in Archs
  /\ arg = <<>> /\ expanded = <<>> /\ expanded_21 = <<>>
  /\ arguments \in ArgumentWorlds
  /\ account \in LaunchAccounts
  \* the damaged tree is tried on one platform, with one account
  /\ fs \in {InstalledTree}
            \cup (IF /\ current_os = "linux" /\ current_arch = "x86"
                     /\ account \in StoredAccounts
                     /\ arguments = [v \in Versions |-> Arguments(v)]
                  THEN {DamagedTree} ELSE {})

InitLaunch ==
  /\ LaunchInit
  /\ LaunchIdle
  /\ FetchIdle
  /\ GuiIdle

\* launch_game of either launcher on one thread; the manifest is loaded
LaunchNext ==
  \/ (\E v \in Versions : launch_game(InstallThread, v)) /\ UNCHANGED <<rulesVars, fetchVars, argsVars, guiVars>>
  \/ InstallJson(InstallThread) /\ UNCHANGED <<rulesVars, fetchVars, argsVars, guiVars>>
  \/ InstallDownload(InstallThread) /\ UNCHANGED <<rulesVars, fetchVars, argsVars, guiVars>>
  \/ InstallLoad(InstallThread) /\ UNCHANGED <<rulesVars, fetchVars, argsVars, guiVars>>
  \/ InstallParentLoaded(InstallThread) /\ UNCHANGED <<rulesVars, fetchVars, argsVars, guiVars>>
  \/ InstallJar(InstallThread) /\ UNCHANGED <<rulesVars, fetchVars, argsVars, guiVars>>
  \/ InstallLibrary(InstallThread) /\ UNCHANGED <<rulesVars, fetchVars, argsVars, guiVars>>
  \/ InstallNative(InstallThread) /\ UNCHANGED <<rulesVars, fetchVars, argsVars, guiVars>>
  \/ InstallIndex(InstallThread) /\ UNCHANGED <<rulesVars, fetchVars, argsVars, guiVars>>
  \/ InstallIndexLoad(InstallThread) /\ UNCHANGED <<rulesVars, fetchVars, argsVars, guiVars>>
  \/ InstallAsset(InstallThread) /\ UNCHANGED <<rulesVars, fetchVars, argsVars, guiVars>>
  \/ InstallComplete(InstallThread) /\ UNCHANGED <<rulesVars, fetchVars, argsVars, guiVars>>
  \/ LaunchSpawn(InstallThread) /\ UNCHANGED <<rulesVars, fetchVars, argsVars, guiVars>>
  \/ LaunchSpawn21(InstallThread) /\ UNCHANGED <<rulesVars, fetchVars, argsVars, guiVars>>

SpecLaunch == InitLaunch /\ [][LaunchNext]_vars

ArgsNext ==
  \/ ExpandCat4k /\ UNCHANGED <<rulesVars, fetchVars, installVars, launchVars, guiVars>>
  \/ ExpandCat21 /\ UNCHANGED <<rulesVars, fetchVars, installVars, launchVars, guiVars>>

InitArgs ==
  /\ ArgsInit
  /\ RulesIdle
  /\ FetchIdle
  /\ InstallIdle
  /\ LaunchIdle
  /\ GuiIdle

SpecArgs == InitArgs /\ [][ArgsNext]_vars

(***************************************************************************)
(* The launcher window: the launch button, on_launch (Tk main thread) and  *)
(* the worker thread _launch_task.  What install_version and launch_game   *)
(* do to the disk is in the sections above; here they return or raise.     *)
(* The status callbacks (set_status) do not touch the button or the flag   *)
(* and are left out.                                                       *)
(***************************************************************************)
Programs == {"Cat4k", "CAT2.1.X", "CATCLIENT1.1"}

\* CAT2.1.X.py and $CATCLIENT1.1.py keep self.is_launching; Cat4k.py does not
has_flag == program \in {"CAT2.1.X", "CATCLIENT1.1"}

\* what the version box holds at a press: a version, one of the names of
\* self.popular_modpacks (Cat4k.py only), or nothing
Selections == IF program = "Cat4k" THEN {"v1", "modpack", "none"} ELSE {"v1", "none"}

Started == {w \in Workers : task[w].pc # "idle"}
Running(w) == task[w].pc \notin {"idle", "done"}

\* on_launch(): the early returns (the flag, no version, no account, a bad
\* RAM or port value), then the button is disabled and the thread started
on_launch(sel, valid) ==
  IF has_flag /\ is_launching THEN UNCHANGED guiVars
  ELSE IF sel = "none" \/ ~valid THEN UNCHANGED guiVars
  ELSE /\ is_launching' = has_flag
       /\ launch_btn' = "disabled"
       /\ task' = [task EXCEPT ![Cardinality(Started) + 1] =
                     [pc |-> "try", item |-> sel,
                      is_modpack |-> (program = "Cat4k" /\ sel = "modpack"),
                      ended |-> "none"]]
       /\ UNCHANGED <<program, after_queue, released>>

\* the user presses the launch button: Tk calls the command of a button only
\* when its state is not "disabled"
Press(sel, valid) ==
  /\ Cardinality(Started) < MaxWorkers
  /\ IF launch_btn = "disabled" THEN UNCHANGED guiVars ELSE on_launch(sel, valid)

\* _launch_task enters its try block: "if is_modpack:" (Cat4k.py)
TaskTry(w) ==
  /\ task[w].pc = "try"
  /\ task' = [task EXCEPT ![w].pc = IF task[w].is_modpack THEN "dialog" ELSE "install"]
  /\ UNCHANGED <<program, launch_btn, is_launching, after_queue, released>>

\* a message box opened by the worker is closed by the user.  In the modpack
\* branch of Cat4k.py the worker then queues a first re-enabling of the
\* button and returns; in CAT2.1.X.py and $CATCLIENT1.1.py the box is the
\* showerror of the except clause
TaskDialog(w) ==
  /\ task[w].pc = "dialog"
  /\ task' = [task EXCEPT ![w].pc = "finally"]
  /\ after_queue' = IF task[w].is_modpack THEN Append(after_queue, w) ELSE after_queue
  /\ UNCHANGED <<program, launch_btn, is_launching, released>>

\* install_version(...) returns or raises (inside launch_lunar_client in
\* $CATCLIENT1.1.py)
TaskInstall(w) ==
  /\ task[w].pc = "install"
  /\ \E ok \in BOOLEAN :
       task' = [task EXCEPT ![w].pc = IF ok THEN "launch" ELSE "except",
                            ![w].ended = IF ok THEN "none" ELSE "exception"]
  /\ UNCHANGED <<program, launch_btn, is_launching, after_queue, released>>

\* launch_game(...) returns or raises
TaskLaunch(w) ==
  /\ task[w].pc = "launch"
  /\ \E ok \in BOOLEAN :
       task' = [task EXCEPT ![w].pc = IF ok THEN "finally" ELSE "except",
                            ![w].ended = IF ok THEN "success" ELSE "exception"]
  /\ UNCHANGED <<program, launch_btn, is_launching, after_queue, released>>

\* except Exception: Cat4k.py queues its showerror on the main loop and goes
\* on; the two others open it from the worker and wait for it
TaskExcept(w) ==
  /\ task[w].pc = "except"
  /\ task' = [task EXCEPT ![w].pc = IF has_flag THEN "dialog" ELSE "finally"]
  /\ UNCHANGED <<program, launch_btn, is_launching, after_queue, released>>

\* a finally clause that gives the button back to nobody
TaskFinallyKeepsGuard(w) ==
  /\ task[w].pc = "finally"
  /\ task' = [task EXCEPT ![w].pc = "done",
                          ![w].ended = IF task[w].is_modpack THEN "modpack" ELSE @]
  /\ UNCHANGED <<program, launch_btn, is_launching, after_queue, released>>

\* finally: Cat4k.py queues self.launch_btn.config({"state": "normal"}) on the
\* main loop and the thread ends; the two others first reset the flag
TaskFinally(w) ==
  /\ task[w].pc = "finally"
  /\ IF has_flag
     THEN /\ is_launching' = FALSE
          /\ task' = [task EXCEPT ![w].pc = "finally_config"]
          /\ UNCHANGED after_queue
     ELSE /\ after_queue' = Append(after_queue, w)
          /\ task' = [task EXCEPT ![w].pc = "done",
                                  ![w].ended = IF task[w].is_modpack THEN "modpack" ELSE @]
          /\ UNCHANGED is_launching
  /\ UNCHANGED <<program, launch_btn, released>>

\* self.launch_btn.config(state="normal", ...) of the finally clause
TaskFinallyConfig(w) ==
  /\ task[w].pc = "finally_config"
  /\ launch_btn' = "normal"
  /\ released' = released \cup {w}
  /\ task' = [task EXCEPT ![w].pc = "finally_update"]
  /\ UNCHANGED <<program, is_launching, after_queue>>

\* self.root.update_idletasks(), after which the thread ends
TaskFinallyUpdate(w) ==
  /\ task[w].pc = "finally_update"
  /\ task' = [task EXCEPT ![w].pc = "done"]
  /\ UNCHANGED <<program, launch_btn, is_launching, after_queue, released>>

\* the Tk main loop runs the oldest queued callback: the button is enabled
MainLoop ==
  /\ after_queue # <<>>
  /\ launch_btn' = "normal"
  /\ released' = released \cup {Head(after_queue)}
  /\ after_queue' = Tail(after_queue)
  /\ UNCHANGED <<program, is_launching, task>>

TaskStep(w) ==
  \/ TaskTry(w)
  \/ TaskDialog(w)
  \/ TaskInstall(w)
  \/ TaskLaunch(w)
  \/ TaskExcept(w)
  \/ TaskFinally(w)
  \/ TaskFinallyConfig(w)
  \/ TaskFinallyUpdate(w)

GuiInit ==
  /\ program \in Programs
  /\ launch_btn = "normal"
  /\ is_launching = FALSE
  /\ after_queue = <<>>
  /\ task = [w \in Workers |-> NoTask]
  /\ released = {}

GuiNext ==
  \/ (\E sel \in Selections, valid \in BOOLEAN : Press(sel, valid))
       /\ UNCHANGED <<rulesVars, fetchVars, installVars, launchVars, argsVars>>
  \/ (\E w \in Workers : TaskTry(w))
       /\ UNCHANGED <<rulesVars, fetchVars, installVars, launchVars, argsVars>>
  \/ (\E w \in Workers : TaskDialog(w))
       /\ UNCHANGED <<rulesVars, fetchVars, installVars, launchVars, argsVars>>
  \/ (\E w \in Workers : TaskInstall(w))
       /\ UNCHANGED <<rulesVars, fetchVars, installVars, launchVars, argsVars>>
  \/ (\E w \in Workers : TaskLaunch(w))
       /\ UNCHANGED <<rulesVars, fetchVars, installVars, launchVars, argsVars>>
  \/ (\E w \in Workers : TaskExcept(w))
       /\ UNCHANGED <<rulesVars, fetchVars, installVars, launchVars, argsVars>>
  \/ (\E w \in Workers : TaskFinally(w))
       /\ UNCHANGED <<rulesVars, fetchVars, installVars, launchVars, argsVars>>
  \/ (\E w \in Workers : TaskFinallyConfig(w))
       /\ UNCHANGED <<rulesVars, fetchVars, installVars, launchVars, argsVars>>
  \/ (\E w \in Workers : TaskFinallyUpdate(w))
       /\ UNCHANGED <<rulesVars, fetchVars, installVars, launchVars, argsVars>>
  \/ MainLoop /\ UNCHANGED <<rulesVars, fetchVars, installVars, launchVars, argsVars>>

InitGui ==
  /\ GuiInit
  /\ RulesIdle
  /\ FetchIdle
  /\ InstallIdle
  /\ LaunchIdle
  /\ ArgsIdle

SpecGui == InitGui /\ [][GuiNext]_vars

\* the operating system keeps scheduling every started thread, an open
\* message box is closed in the end, and root.mainloop() keeps running the
\* queued callbacks; nothing obliges the user to press the button
SpecGuiFair ==
  /\ InitGui
  /\ [][GuiNext]_vars
  /\ \A w \in Workers :
       WF_vars(TaskStep(w) /\ UNCHANGED <<rulesVars, fetchVars, installVars, launchVars, argsVars>>)
  /\ WF_vars(MainLoop /\ UNCHANGED <<rulesVars, fetchVars, installVars, launchVars, argsVars>>)

(***************************************************************************)
(* C1.  The inclusion decision applied to a library is last-match-wins:    *)
(* true for an empty rule list, otherwise the action of the last rule, in  *)
(* declared order, that matches the platform (no os constraint, or os name *)
(* equal to the current OS name), and false when no rule matches.          *)
(***************************************************************************)
RuleMatches(rule, os) == no_os(rule) \/ rule.name = os

LastMatchVerdict(rs, os) ==
  IF rs = <<>> THEN TRUE
  ELSE LET matching == {i \in 1..Len(rs) : RuleMatches(rs[i], os)}
       IN IF matching = {} THEN FALSE
          ELSE LET last == CHOOSE i \in matching : \A j \in matching : j <= i
               IN rs[last].action = "allow"

C1_LastMatchWins ==
  /\ allowed # <<>> => allowed[1] = LastMatchVerdict(rules, current_os)
  /\ lib_allowed # <<>> => lib_allowed[1] = LastMatchVerdict(rules, current_os)

(***************************************************************************)
(* The inheritance chain of a version, as the descriptors declare it.      *)
(***************************************************************************)
RECURSIVE ChainFrom(_, _)
\* the versions from v up its inheritsFrom links, stopping before a repeat
ChainFrom(v, seen) ==
  IF v = NoParent \/ v \in seen THEN <<>>
  ELSE <<v>> \o ChainFrom(inheritsFrom[v], seen \cup {v})

Chain(v) == ChainFrom(v, {})
\* the chain starting at v runs into a version it already holds
Cyclic(v) == inheritsFrom[Chain(v)[Len(Chain(v))]] # NoParent

RECURSIVE SumLibraries(_)
SumLibraries(chain) ==
  IF chain = <<>> THEN 0
  ELSE Len(Descriptor(Head(chain)).libraries) + SumLibraries(Tail(chain))

Elems(seq) == {seq[k] : k \in 1..Len(seq)}

(***************************************************************************)
(* C2.  When the inheritsFrom chain of the requested version holds a cycle *)
(* (a self-reference included), install_version fails with a cycle-        *)
(* detected error instead of recursing without bound: it never enters a    *)
(* version it is already installing, and never runs into the recursion     *)
(* limit.                                                                  *)
(***************************************************************************)
C2_CycleDetected ==
  \A t \in Threads :
    /\ \A a, b \in 1..Len(stack[t]) :
         stack[t][a].version_id = stack[t][b].version_id => a = b
    /\ error[t] # "RecursionError"

(***************************************************************************)
(* C3.  For an acyclic chain of any depth, the library list built for the  *)
(* requested version holds the libraries of every ancestor: its length is  *)
(* the sum of the ancestors' own library counts.                           *)
(***************************************************************************)
LibrariesBuilt(f) == f.pc \in {"libs", "native", "index", "index_load", "assets", "complete"}

C3_AllAncestorLibraries ==
  \A t \in Threads : \A k \in 1..Len(stack[t]) :
    LET f == stack[t][k]
    IN (LibrariesBuilt(f) /\ ~Cyclic(f.version_id)) =>
         /\ Len(f.libraries) = SumLibraries(Chain(f.version_id))
         /\ \A a \in Elems(Chain(f.version_id)) :
              Elems(Descriptor(a).libraries) \subseteq Elems(f.libraries)

\* the same for the list launch_game walks to build the class path
C3_LaunchAllAncestorLibraries ==
  \A t \in Threads :
    (launching[t] # NoLaunch /\ launch_libs[t] # <<>> /\ ~Cyclic(launching[t])) =>
       Len(launch_libs[t]) = SumLibraries(Chain(launching[t]))

(***************************************************************************)
(* C4.  Once install_version(V) has returned, a later install_version(V)   *)
(* calls download_file not once, whether V has a parent or not: between    *)
(* the call of an already installed version and its return there is no     *)
(* fetch.                                                                  *)
(***************************************************************************)
\* event k of the log belongs to the call logged at c (the call has not returned)
Inside(l, c, k) ==
  /\ c < k
  /\ l[c].op = "call"
  /\ ~\E m \in (c + 1)..(k - 1) : l[m].op = "return" /\ l[m].depth = l[c].depth

C4_Idempotent ==
  \A t \in Threads : \A c, k \in 1..Len(log[t]) :
    (Inside(log[t], c, k) /\ log[t][c].flag) => log[t][k].op # "fetch"

\* a second install of a version with a parent has returned
C4_Witness ==
  /\ result[1] = "returned"
  /\ log[1][1].flag /\ log[1][1].v = "v2" /\ inheritsFrom["v2"] = "v1"
  /\ Len(log[1]) > 8

(***************************************************************************)
(* C5.  In install_version(child) with a parent, nothing of the child but  *)
(* its descriptor is fetched before install_version(parent) has returned,  *)
(* and nothing when the parent's installation raises.                      *)
(***************************************************************************)
ChildArtifacts == {"jar", "library", "native", "index", "asset"}

C5_ParentFirst ==
  \A t \in Threads : \A k \in 1..Len(log[t]) :
    LET e == log[t][k]
    IN /\ (e.op = "fetch" /\ e.kind \in ChildArtifacts /\ inheritsFrom[e.v] # NoParent) =>
            \E m \in 1..(k - 1) :
              /\ log[t][m].op = "return"
              /\ log[t][m].depth = e.depth + 1
              /\ log[t][m].v = inheritsFrom[e.v]
       \* an exception ends the call: no event follows it
       /\ e.op = "raise" => k = Len(log[t])

\* a child fetched its client jar after its parent's installation
C5_Witness ==
  \E k \in 1..Len(log[1]) :
    /\ log[1][k].op = "fetch" /\ log[1][k].kind = "jar"
    /\ log[1][k].v = "v2" /\ inheritsFrom["v2"] = "v1"

(***************************************************************************)
(* C9.  An asset object with hash h is fetched, to                         *)
(* assets/objects/<first two characters of h>/<h>, exactly when no file is *)
(* at that path when its entry is processed; so entries with one hash, in  *)
(* one index or in the indexes of two versions, cause at most one fetch.   *)
(***************************************************************************)
ShardPath(h) == <<"assets", "objects", h[1], h[2], "/">> \o h

C9_FetchIffAbsent ==
  /\ \A t \in Threads : \A k \in 1..Len(log[t]) :
       LET e == log[t][k]
       IN e.kind = "asset" /\ e.op \in {"fetch", "skip"} =>
            /\ (e.op = "fetch") <=> ~e.flag
            /\ \E h \in Hashes : e.path = ShardPath(h)
            \* one call of install_version fetches a path at most once
            /\ \A m \in 1..Len(log[t]) :
                 (log[t][m].op = "fetch" /\ e.op = "fetch" /\ log[t][m].path = e.path) => m = k
  /\ \A h \in Hashes : ok_fetches[asset_path(h)] <= 1

\* the second entry with Hash1 in idx1 was found on disk, and so was the entry
\* with Hash1 in idx3 of the version installed next
C9_Witness ==
  /\ ok_fetches[asset_path(Hash1)] = 1
  /\ completed = {"v1", "v3"}
  /\ \E k \in 1..Len(log[1]) :
       /\ log[1][k].op = "skip" /\ log[1][k].kind = "asset"
       /\ log[1][k].v = "v3" /\ log[1][k].path = asset_path(Hash1)

(***************************************************************************)
(* C6.  download_file with retries = n performs at most n GET attempts,    *)
(* stops at the first successful attempt, retries after every transport or *)
(* HTTP error while attempts remain, and after n failed attempts raises    *)
(* instead of returning normally.                                          *)
(***************************************************************************)
Failed(o) == o \in RetryOutcomes

C6_BoundedRetry ==
  \* at most n GET attempts
  /\ Len(outcomes) <= retries
  \* a success is the last attempt made: nothing is fetched after it
  /\ \A i \in 1..Len(outcomes) : outcomes[i] = "ok" => i = Len(outcomes) /\ dl_pc = "returned"
  \* it returns normally only on a successful attempt
  /\ dl_pc = "returned" => Len(outcomes) >= 1 /\ outcomes[Len(outcomes)] = "ok"
  \* a transport or HTTP error ends the call only when no attempt remains
  /\ (dl_pc = "raised" /\ (outcomes = <<>> \/ Failed(outcomes[Len(outcomes)])))
       => Len(outcomes) = retries
  \* while attempts remain after a transport or HTTP error, the call goes on
  /\ (dl_pc = "loop" /\ Len(outcomes) < retries) => ENABLED AttemptOk
  \* n failed attempts leave no further attempt, only the terminal error
  /\ (Len(outcomes) = retries /\ \A i \in 1..Len(outcomes) : Failed(outcomes[i]))
       => dl_pc \in {"loop", "raised"} /\ ~ENABLED AttemptOk

C6_Witness ==
  /\ retries = 3 /\ dl_pc = "raised"
  /\ outcomes = <<"http", "transport", "cut">>

(***************************************************************************)
(* C7.  Two transient failures followed by a success: the call returns     *)
(* with the destination present, after exactly two backoff delays, the     *)
(* second twice the first.                                                 *)
(***************************************************************************)
TwoFailuresThenSuccess ==
  /\ Len(outcomes) = 3
  /\ Failed(outcomes[1]) /\ Failed(outcomes[2]) /\ outcomes[3] = "ok"

C7_TwoBackoffs ==
  TwoFailuresThenSuccess =>
    /\ dl_pc = "returned"
    /\ dest_file # "absent"
    /\ Len(sleeps) = 2
    /\ sleeps[2] = 2 * sleeps[1]

C7_Witness == TwoFailuresThenSuccess /\ dl_pc = "returned"

(***************************************************************************)
(* C8.  After any call of download_file, returned or raised, the           *)
(* destination is absent or holds the complete body.                       *)
(***************************************************************************)
C8_NoPartialFile ==
  dl_pc \in {"returned", "raised"} => dest_file \in {"absent", "complete"}

(***************************************************************************)
(* C10.  A literal argument token holding recognized placeholders ${name}  *)
(* (for one, ${auth_player_name} with the account Steve) enters the        *)
(* command with every placeholder replaced by its table value and nothing  *)
(* of the placeholder syntax left behind.                                  *)
(***************************************************************************)
PlaceholderAt(tok, k, kw) ==
  /\ k + 3 <= Len(tok)
  /\ tok[k] = "$" /\ tok[k + 1] = "{" /\ tok[k + 2] \in DOMAIN kw /\ tok[k + 3] = "}"

RECURSIVE Substituted(_, _, _)
\* tok from piece k on, every placeholder ${name} replaced by kw[name]
Substituted(tok, k, kw) ==
  IF k > Len(tok) THEN <<>>
  ELSE IF PlaceholderAt(tok, k, kw) THEN kw[tok[k + 2]] \o Substituted(tok, k + 4, kw)
  ELSE <<tok[k]>> \o Substituted(tok, k + 1, kw)

\* the token is plain text and recognized placeholders, nothing else
OnlyPlaceholders(tok, kw) ==
  \A n \in 1..Len(tok) :
    tok[n] \in {"$", "{", "}"} =>
      \E k \in 1..n : PlaceholderAt(tok, k, kw) /\ n <= k + 3

Cat4kTable == replacements(account, "v1", "idx1", "release", FALSE)

C10_PlaceholderReplaced ==
  (expanded # <<>> /\ OnlyPlaceholders(arg, Cat4kTable)) =>
     /\ expanded[1].outcome = "appended"
     /\ expanded[1].val = Substituted(arg, 1, Cat4kTable)

(***************************************************************************)
(* C11.  install_version(V) consults the global index only when V has no   *)
(* local descriptor file.  File absent and V not in the index: it raises   *)
(* the unknown-version error, having created no folder and called          *)
(* download_file not once.  File absent and V in the index: it fetches the *)
(* descriptor.  File present: no descriptor fetch and no unknown-version   *)
(* error, in the index or not.                                             *)
(***************************************************************************)
\* the events the step appends to the log of thread t
NewEvents(t) == {log'[t][k] : k \in (Len(log[t]) + 1)..Len(log'[t])}

\* the step of thread t is the descriptor stage of install_version
JsonStep(t) == At(t, "json") /\ stack'[t] # stack[t]

C11_IndexOnlyWhenNoDescriptor ==
  [][\A t \in Threads :
       JsonStep(t) =>
         LET v == Top(t).version_id
             absent == ~isfile(version_json_path(v))
             known == v \in all_versions
         IN /\ (absent /\ ~known) =>
                 /\ result'[t] = "raised" /\ error'[t] = "UnknownVersion"
                 /\ fs' = fs /\ ok_fetches' = ok_fetches /\ failures' = failures
                 /\ \A e \in NewEvents(t) : e.op # "fetch"
            \* it enters download_file for the descriptor
            /\ (absent /\ known) =>
                 /\ stack'[t][Len(stack'[t])].pc = "download"
                 /\ stack'[t][Len(stack'[t])].kind = "json"
                 /\ stack'[t][Len(stack'[t])].path = version_json_path(v)
                 /\ fs'[version_folder(v)] = "dir"
                 /\ error'[t] # "UnknownVersion"
            /\ ~absent =>
                 /\ fs' = fs /\ ok_fetches' = ok_fetches
                 /\ \A e \in NewEvents(t) : e.op # "fetch"
                 /\ result'[t] = "running"]_vars

\* with the index loaded, a version that is neither on disk nor in the index
\* was refused; no folder was made for it
C11_Witness ==
  /\ all_versions = ManifestIds
  /\ result[1] = "raised" /\ error[1] = "UnknownVersion"
  /\ log[1][1].v = "v3" /\ Len(log[1]) = 2
  /\ fs[version_folder("v3")] = "absent"

(***************************************************************************)
(* C12.  A run of install_version aborted by a fetch failure rolls nothing *)
(* back: no file that is present ever becomes absent.  A following run     *)
(* calls download_file only for files that are absent: over any sequence   *)
(* of failed and successful runs, no call of download_file is made for a   *)
(* path whose file is present, and no path is fetched to the end twice.    *)
(***************************************************************************)
C12_ResumeFetchesOnlyMissing ==
  /\ [](/\ \A t \in Threads : \A k \in 1..Len(log[t]) :
             log[t][k].op = "fetch" => ~log[t][k].flag
        /\ \A p \in Paths : ok_fetches[p] <= 1)
  /\ [][\A p \in Paths : fs[p] # "absent" => fs'[p] # "absent"]_vars

\* a run of install_version("v1") was cut while it fetched a.jar; the next run
\* found the client jar and what there is of a.jar, fetched the asset index,
\* which was missing, and returned
C12_Witness ==
  /\ failures = 1 /\ fs[lib_path("a.jar")] = "partial"
  /\ fs[version_json_path("v2")] = "absent" /\ fs[version_json_path("v3")] = "absent"
  /\ result[1] = "returned" /\ log[1][1].v = "v1"
  /\ \E k \in 1..Len(log[1]) : log[1][k].op = "skip" /\ log[1][k].kind = "jar"
  /\ \E k \in 1..Len(log[1]) : log[1][k].op = "skip" /\ log[1][k].path = lib_path("a.jar")
  /\ \E k \in 1..Len(log[1]) : log[1][k].op = "fetch" /\ log[1][k].kind = "index"

(***************************************************************************)
(* C13.  When a download_file call made by install_version fails, at any   *)
(* stage and at any depth of the recursion, install_version raises to its  *)
(* caller: it makes no further fetch, reports no completion, and does not  *)
(* return normally.                                                        *)
(***************************************************************************)
\* the step of thread t is a download_file call inside install_version that failed
FailedFetchStep(t) ==
  /\ result[t] = "running" /\ stack[t] # <<>> /\ stack'[t] # stack[t]
  /\ failures' = failures + 1

C13_FetchFailurePropagates ==
  /\ [][\A t \in Threads :
          FailedFetchStep(t) =>
            /\ result'[t] = "raised" /\ error'[t] = "FetchError"
            /\ stack'[t] = <<>>
            /\ completed' = completed]_vars
  /\ [](\A t \in Threads :
          error[t] = "FetchError" =>
            /\ result[t] = "raised" /\ ~spawned[t]
            /\ log[t][Len(log[t])].op = "raise"
            /\ log[t][Len(log[t]) - 1].op = "fetch"
            \* the requested version's completion is not reported
            /\ \A k \in 1..Len(log[t]) : ~(log[t][k].op = "return" /\ log[t][k].depth = 1))

\* the download of a library failed in the installation of a parent, two calls
\* deep: the whole installation was given up
C13_Witness ==
  /\ result[1] = "raised" /\ error[1] = "FetchError"
  /\ log[1][Len(log[1])].depth = 2
  /\ log[1][Len(log[1]) - 1].op = "fetch" /\ log[1][Len(log[1]) - 1].kind = "library"

(***************************************************************************)
(* C14.  Two install_version runs for two different versions, running at   *)
(* the same time, never write one destination path: they are never both    *)
(* inside download_file for the same path, and no path is passed to        *)
(* download_file by both.                                                  *)
(***************************************************************************)
FetchedPaths(t) == {log[t][k].path : k \in {n \in 1..Len(log[t]) : log[t][n].op = "fetch"}}

C14_DisjointPaths ==
  \A t, u \in Threads :
    t # u =>
      /\ (At(t, "download") /\ At(u, "download")) => Top(t).path # Top(u).path
      /\ FetchedPaths(t) \cap FetchedPaths(u) = {}

(***************************************************************************)
(* C15.  When neither the requested version nor its parent declares        *)
(* mainClass, launch_game ends with a build error that names the missing   *)
(* field and spawns no process; no command is ever assembled whose main-   *)
(* class element is missing.                                               *)
(***************************************************************************)
\* launch_game of thread t has ended after working out the main class
LaunchEnded(t) ==
  /\ launching[t] # NoLaunch /\ result[t] \in {"returned", "raised"}
  /\ log[t][Len(log[t])].op = "spawn"

C15_MissingMainClass ==
  \A t \in Threads :
    /\ \A k \in 1..Len(command[t]) :
         command[t][k].part = "main" => command[t][k].text # <<NoMainClass>>
    /\ (LaunchEnded(t) /\ main_class[t] = NoMainClass) =>
         /\ ~spawned[t]
         /\ command[t] = <<>>
         /\ error[t] = "BuildError: mainClass"

(***************************************************************************)
(* C16.  For an account of type offline, what launch_game puts in place of *)
(* ${auth_access_token} is the sentinel "0", whatever the token field of   *)
(* the account holds.                                                      *)
(***************************************************************************)
C16_OfflineTokenSentinel ==
  (/\ expanded # <<>>
   /\ account.type = "offline"
   /\ arg = <<"$", "{", "auth_access_token", "}">>) =>
     /\ expanded[1].outcome = "appended"
     /\ Elems(expanded[1].val) \ {"$"} = {"0"}

(***************************************************************************)
(* C17.  Every command launch_game builds has the order: java executable,  *)
(* the fixed JVM flags (-Xmx, then -Djava.library.path), the expanded      *)
(* descriptor jvm arguments, the classpath flag and its value, the main    *)
(* class, the game arguments.  The fixed flags precede every expanded jvm  *)
(* argument, and the classpath flag and value are the two elements just    *)
(* before the main class.  (Under Rosetta the whole list follows the       *)
(* prefix arch -x86_64; the arm64 and Lunar flags sit between the two      *)
(* fixed flags and the descriptor's arguments.)                            *)
(***************************************************************************)
PartRank(part) ==
  CASE part = "wrapper" -> 0
    [] part = "java" -> 1
    [] part = "fixed" -> 2
    [] part \in {"arm64", "lunar"} -> 3
    [] part = "jvm" -> 4
    [] part = "cp_flag" -> 5
    [] part = "cp_value" -> 6
    [] part = "main" -> 7
    [] part \in {"game", "server"} -> 8

PartsAt(c, part) == {k \in 1..Len(c) : c[k].part = part}

CommandOrdered(c) ==
  /\ \A k \in 1..(Len(c) - 1) : PartRank(c[k].part) <= PartRank(c[k + 1].part)
  /\ Cardinality(PartsAt(c, "java")) = 1
  /\ Cardinality(PartsAt(c, "main")) = 1
  /\ \A j \in PartsAt(c, "java") :
       /\ c[j + 1] = Elem("fixed", <<"-Xmx">>)
       /\ c[j + 2] = Elem("fixed", <<"-Djava.library.path">>)
       /\ PartsAt(c, "fixed") = {j + 1, j + 2}
  /\ \A f \in PartsAt(c, "fixed") : \A k \in PartsAt(c, "jvm") : f < k
  /\ \A m \in PartsAt(c, "main") :
       /\ m >= 3
       /\ c[m - 2] = Elem("cp_flag", <<"-cp">>)
       /\ c[m - 1].part = "cp_value"
       /\ PartsAt(c, "cp_flag") = {m - 2}
       /\ PartsAt(c, "cp_value") = {m - 1}
       /\ \A k \in PartsAt(c, "jvm") : k < m - 2
       /\ \A k \in PartsAt(c, "game") : m < k

C17_CommandOrder ==
  \A t \in Threads : command[t] # <<>> => CommandOrdered(command[t])

\* a spawned command that has expanded jvm arguments and game arguments
C17_Witness ==
  \E t \in Threads :
    /\ spawned[t]
    /\ PartsAt(command[t], "jvm") # {}
    /\ PartsAt(command[t], "game") # {}
    /\ PartsAt(command[t], "wrapper") # {}

(***************************************************************************)
(* C18.  For a version with a parent the list fields are parent-then-child:*)
(* the library list of install_version and of launch_game is the parent's  *)
(* libraries followed by the version's own, and the expanded jvm and game  *)
(* arguments are all the parent's entries followed by all the version's    *)
(* own (none replaced, none dropped).                                      *)
(***************************************************************************)
ParentThenChildLibraries(v, parent) ==
  parent_libraries(parent) \o Descriptor(v).libraries

\* the elements of the command that come from one of the two argument lists
PartOf(c, part) == SelectSeq(c, LAMBDA e : e.part = part)

ParentThenChildArguments(c, v, parent) ==
  \E lunar \in BOOLEAN :
    LET kw == replacements(account, v, assets_index_name(v, parent), "release", lunar)
    IN /\ PartOf(c, "jvm") =
            expand_all(arguments[parent].jvm \o arguments[v].jvm, kw, "jvm")
       /\ PartOf(c, "game") =
            expand_all(arguments[parent].game \o arguments[v].game, kw, "game")

C18_LibrariesParentThenChild ==
  \A t \in Threads :
    /\ \A k \in 1..Len(stack[t]) :
         LET f == stack[t][k]
         IN (LibrariesBuilt(f) /\ f.parent_data # NoParent) =>
              f.libraries = ParentThenChildLibraries(f.version_id, f.parent_data)
    /\ (LaunchEnded(t) /\ inheritsFrom[launching[t]] # NoParent) =>
         launch_libs[t] = ParentThenChildLibraries(launching[t], inheritsFrom[launching[t]])

C18_ArgumentsParentThenChild ==
  \A t \in Threads :
    (LaunchEnded(t) /\ command[t] # <<>> /\ inheritsFrom[launching[t]] # NoParent) =>
       ParentThenChildArguments(command[t], launching[t], inheritsFrom[launching[t]])

C18_ParentThenChild ==
  C18_LibrariesParentThenChild /\ C18_ArgumentsParentThenChild

(***************************************************************************)
(* C19.  Along every inheritance chain the scalar fields take the nearest  *)
(* declared value: mainClass and assetIndex are the requested version's    *)
(* own value when it declares one, else the value of the nearest ancestor  *)
(* that declares one (the parent, or a further ancestor when the parent    *)
(* declares none).                                                         *)
(***************************************************************************)
RECURSIVE NearestMainClass(_)
NearestMainClass(chain) ==
  IF chain = <<>> THEN NoMainClass
  ELSE IF Descriptor(Head(chain)).mainClass # NoMainClass
  THEN Descriptor(Head(chain)).mainClass
  ELSE NearestMainClass(Tail(chain))

RECURSIVE NearestAssetIndex(_)
NearestAssetIndex(chain) ==
  IF chain = <<>> THEN NoIndex
  ELSE IF Descriptor(Head(chain)).assetIndex # NoIndex
  THEN Descriptor(Head(chain)).assetIndex
  ELSE NearestAssetIndex(Tail(chain))

C19_NearestDeclaredValue ==
  \A t \in Threads :
    /\ (LaunchEnded(t) /\ ~Cyclic(launching[t])) =>
         \E opts \in LaunchOptions :
           main_class[t] = effective_main_class(NearestMainClass(Chain(launching[t])), opts)
    /\ \A k \in 1..Len(stack[t]) :
         LET f == stack[t][k]
         IN (f.pc \in {"index_load", "assets", "complete"} /\ ~Cyclic(f.version_id)) =>
              f.idx = NearestAssetIndex(Chain(f.version_id))

(***************************************************************************)
(* C20.  A rule whose os constraint names an architecture matches the      *)
(* platform only if that architecture is the current one: a library whose  *)
(* allow rules all name an architecture other than the current one (for    *)
(* instance its only rule allows the current OS with a different arch) is  *)
(* neither fetched by install_version nor put on the classpath by          *)
(* launch_game.                                                            *)
(***************************************************************************)
ArchMismatch(rule) == rule.arch \in Archs /\ rule.arch # current_arch

EveryAllowRuleOtherArch ==
  /\ rules # <<>>
  /\ \A i \in 1..Len(rules) : rules[i].action = "allow" => ArchMismatch(rules[i])

C20_ArchConstraint ==
  EveryAllowRuleOtherArch =>
    /\ allowed # <<>> => ~allowed[1]
    /\ lib_allowed # <<>> => ~lib_allowed[1]

(***************************************************************************)
(* C21.  A conditional argument token of arguments.jvm or arguments.game   *)
(* gives its value to the command only if its rules allow the current      *)
(* platform under the evaluation used for libraries: when they allow,      *)
(* every string of its value is in the command, in order, with its         *)
(* placeholders substituted; when they do not, none of its strings is in   *)
(* the command.                                                            *)
(***************************************************************************)
\* the table of the launch that thread t ran (launcher_name, the one entry
\* that depends on the options, is not used by a descriptor of the model)
LaunchTable(t) ==
  replacements(account, launching[t],
               assets_index_name(launching[t], inheritsFrom[launching[t]]),
               "release", FALSE)

RawArgs(t, part) ==
  IF part = "jvm" THEN raw_jvm_args(launching[t], inheritsFrom[launching[t]])
  ELSE raw_game_args(launching[t], inheritsFrom[launching[t]])

\* every string of the value can be substituted
Substitutable(raw, kw) ==
  \A n \in 1..Len(raw.value) : format(raw.value[n], kw).err = "none"

SubstitutedValue(raw, kw) ==
  [n \in 1..Len(raw.value) |-> format(raw.value[n], kw).val]

\* the texts stand in the command one after the other, as elements of the part
InOrderIn(c, part, texts) ==
  \E k \in 0..Len(c) :
    /\ k + Len(texts) <= Len(c)
    /\ \A n \in 1..Len(texts) : c[k + n] = Elem(part, texts[n])

NoneIn(c, part, raw, kw) ==
  \A n \in 1..Len(raw.value) : \A k \in 1..Len(c) :
    ~(c[k].part = part /\ format(raw.value[n], kw).err = "none"
                       /\ c[k].text = format(raw.value[n], kw).val)

C21_ConditionalTokens ==
  \A t \in Threads :
    (LaunchEnded(t) /\ command[t] # <<>>) =>
      \A part \in {"jvm", "game"} : \A i \in 1..Len(RawArgs(t, part)) :
        LET raw == RawArgs(t, part)[i]
        IN raw.kind = "dict" =>
             IF lib_rules_allow(raw.rules, current_os)
             THEN Substitutable(raw, LaunchTable(t)) =>
                    InOrderIn(command[t], part, SubstitutedValue(raw, LaunchTable(t)))
             ELSE NoneIn(command[t], part, raw, LaunchTable(t))

(***************************************************************************)
(* C22.  A token that references a placeholder missing from the table is   *)
(* dropped as a whole (of a list-valued conditional token none of the      *)
(* strings is added, not a prefix of them), every other token is kept, in  *)
(* order, and the command is still completed.  Stated for the launches     *)
(* whose conditional tokens are all allowed by their rules, so that what   *)
(* is left out is left out for the placeholder alone.                      *)
(***************************************************************************)
UnknownPlaceholder(raw, kw) ==
  IF raw.kind = "str" THEN expand_literal(raw.text, kw).outcome = "skipped"
  ELSE \E n \in 1..Len(raw.value) : format(raw.value[n], kw).err = "KeyError"

RECURSIVE DropWhole(_, _, _)
\* the expansion that drops every token with an unknown placeholder entirely
DropWhole(raws, kw, part) ==
  IF raws = <<>> THEN <<>>
  ELSE LET raw == Head(raws)
           vals == IF UnknownPlaceholder(raw, kw) THEN <<>>
                   ELSE IF raw.kind = "str" THEN <<expand_literal(raw.text, kw).val>>
                   ELSE SubstitutedValue(raw, kw)
       IN [k \in 1..Len(vals) |-> Elem(part, vals[k])] \o DropWhole(Tail(raws), kw, part)

AllConditionalsAllowed(t) ==
  \A part \in {"jvm", "game"} : \A i \in 1..Len(RawArgs(t, part)) :
    RawArgs(t, part)[i].kind = "dict" =>
      lib_rules_allow(RawArgs(t, part)[i].rules, current_os)

C22_UnknownPlaceholderDropsToken ==
  \A t \in Threads :
    (LaunchEnded(t) /\ AllConditionalsAllowed(t)) =>
      /\ command[t] # <<>>
      /\ \A part \in {"jvm", "game"} :
           PartOf(command[t], part) = DropWhole(RawArgs(t, part), LaunchTable(t), part)

(***************************************************************************)
(* C23.  When the merged descriptor has no structured arguments and holds  *)
(* a legacy argument string (minecraftArguments of the requested version,  *)
(* or of its parent when the requested version declares none), the game    *)
(* arguments of the command are exactly the tokens of that string, in      *)
(* order, each with its placeholders substituted.                          *)
(***************************************************************************)
Structured(v) == v # NoParent /\ (arguments[v].has_jvm \/ arguments[v].has_game)

\* the legacy string the merged descriptor carries, split (<<>> if none)
MergedLegacy(v, parent) ==
  IF arguments[v].legacy # <<>> THEN arguments[v].legacy
  ELSE IF parent # NoParent THEN arguments[parent].legacy
  ELSE <<>>

C23_LegacyArguments ==
  \A t \in Threads :
    LET v == launching[t]
        parent == inheritsFrom[v]
        legacy == MergedLegacy(v, parent)
    IN (/\ LaunchEnded(t)
        /\ ~Structured(v) /\ ~Structured(parent)
        /\ legacy # <<>>) =>
          /\ command[t] # <<>>
          /\ PartOf(command[t], "game") =
               [k \in 1..Len(legacy) |->
                  Elem("game", format(legacy[k].text, LaunchTable(t)).val)]

(***************************************************************************)
(* C24.  The classpath launch_game builds holds exactly the artifact of    *)
(* every library (own or inherited) whose rules allow the current platform *)
(* and whose artifact file is on disk, plus the requested version's jar    *)
(* when it is on disk, or else the parent's jar when that is on disk; it   *)
(* holds no artifact of a disallowed library and no path that is not on    *)
(* disk.  (The libraries are those of the list launch_game walks, the      *)
(* rules are evaluated as launch_game evaluates them.)                     *)
(***************************************************************************)
AllowedOnDisk(name) ==
  /\ lib_rules_allow(Library(name).rules, current_os)
  /\ Library(name).artifact # NoPath
  /\ fs[lib_path(Library(name).artifact)] \in {"partial", "complete"}

ExpectedJar(v, parent) ==
  IF fs[version_jar_path(v)] \in {"partial", "complete"} THEN {version_jar_path(v)}
  ELSE IF parent # NoParent /\ fs[version_jar_path(parent)] \in {"partial", "complete"}
  THEN {version_jar_path(parent)}
  ELSE {}

Launch21Ended(t) ==
  /\ launching[t] # NoLaunch /\ result[t] \in {"returned", "raised"}
  /\ log[t][Len(log[t])].op = "spawn21"

Texts(c) == [k \in 1..Len(c) |-> c[k].text]

EndsWith(seq, tail) ==
  /\ Len(tail) <= Len(seq)
  /\ SubSeq(seq, Len(seq) - Len(tail) + 1, Len(seq)) = tail

\* what follows the main class
GameArguments(c) ==
  LET m == CHOOSE k \in 1..Len(c) : c[k].part = "main"
  IN Texts(SubSeq(c, m + 1, Len(c)))

ServerArgumentsOf(c, o) ==
  IF o.server_ip /\ o.port
  THEN EndsWith(GameArguments(c), << <<"--server">>, <<"server_ip">>, <<"--port">>, <<"port">> >>)
  ELSE IF o.server_ip
  THEN /\ EndsWith(GameArguments(c), << <<"--server">>, <<"server_ip">> >>)
       /\ <<"--port">> \notin Elems(Texts(c))
  ELSE /\ <<"--server">> \notin Elems(Texts(c))
       /\ <<"--port">> \notin Elems(Texts(c))

C25_Cat4kServerArguments ==
  \A t \in Threads :
    (LaunchEnded(t) /\ command[t] # <<>>) => ServerArgumentsOf(command[t], options[t])

C25_ServerArguments ==
  /\ C25_Cat4kServerArguments
  /\ \A t \in Threads :
       (Launch21Ended(t) /\ command_21[t] # <<>>) =>
          ServerArgumentsOf(command_21[t], options[t])

(***************************************************************************)
(* C26.  The command is prefixed with arch -x86_64 if and only if          *)
(* cross-architecture execution was requested, the host is an ARM host and *)
(* the process is not already running under the translation layer; in      *)
(* every other case the command is left as it is, and the prefix is never  *)
(* applied twice.                                                          *)
(***************************************************************************)
\* the hardware is ARM: the platform says so, or the process is translated
HostIsArm(o) == current_arch = "arm64" \/ o.under_rosetta

PrefixRule(c, o) ==
  LET wanted == o.use_rosetta /\ HostIsArm(o) /\ ~o.under_rosetta
  IN /\ wanted => (Len(c) >= 3 /\ SubSeq(c, 1, 2) = Wrapper /\ c[3].part = "java")
     /\ ~wanted => c[1].part = "java"
     /\ Cardinality(PartsAt(c, "wrapper")) <= 2

C26_RosettaPrefix ==
  \A t \in Threads :
    /\ (LaunchEnded(t) /\ command[t] # <<>>) => PrefixRule(command[t], options[t])
    /\ (Launch21Ended(t) /\ command_21[t] # <<>>) => PrefixRule(command_21[t], options[t])

(***************************************************************************)
(* C27.  In every run of launch_game the game process is spawned only      *)
(* after install_version for the requested version has returned without    *)
(* error; if the installation raises, no process is spawned and the error  *)
(* reaches the caller.                                                     *)
(***************************************************************************)
EventsAt(t, op) == {k \in 1..Len(log[t]) : log[t][k].op = op}

C27_SpawnAfterInstall ==
  \A t \in Threads :
    launching[t] # NoLaunch =>
      /\ \A k \in EventsAt(t, "spawn") \cup EventsAt(t, "spawn21") :
           /\ \E j \in 1..(k - 1) :
                /\ log[t][j].op = "return"
                /\ log[t][j].v = launching[t]
                /\ log[t][j].depth = 1
           /\ \A j \in EventsAt(t, "raise") : k < j
      /\ \A j \in EventsAt(t, "raise") :
           /\ EventsAt(t, "spawn") \cup EventsAt(t, "spawn21") = {}
           /\ ~spawned[t]
           /\ command[t] = <<>> /\ command_21[t] = <<>>
           /\ result[t] = "raised"
           /\ error[t] = log[t][j].kind

\* a launch whose installation failed on a download
C27_Witness ==
  \E t \in Threads :
    /\ launching[t] # NoLaunch
    /\ result[t] = "raised"
    /\ error[t] = "FetchError"
    /\ EventsAt(t, "raise") # {}


(***************************************************************************)
(* C28: what is on disk when install_version(V) has returned.              *)
(***************************************************************************)
\* the libraries install_version(V) goes through and its own rule test admits
InstalledLibraries(v) ==
  LET libs == install_libraries(v, inheritsFrom[v])
  IN {Library(libs[i]) : i \in {j \in 1..Len(libs) :
                                  install_allowed(Library(libs[j]).rules, current_os)}}

\* the descriptor, the client jar and the admitted libraries' artifacts and
\* native archives of V and its parent are files
FilesOnDisk(v) ==
  /\ isfile(version_json_path(v))
  /\ Descriptor(v).client => isfile(version_jar_path(v))
  /\ \A lib \in InstalledLibraries(v) :
       /\ lib.artifact # NoPath => isfile(lib_path(lib.artifact))
       /\ lib.native # NoPath => isfile(lib_path(lib.native))

\* every selected native archive has been extracted into V's natives directory
NativesExtracted(v) ==
  \A lib \in InstalledLibraries(v) : lib.native # NoPath => <<v, lib.native>> \in extracted

\* the effective asset index and every object of it that has a hash are files
AssetsOnDisk(v) ==
  LET id == asset_index_info(v, inheritsFrom[v])
  IN id # NoIndex =>
       /\ isfile(idx_dest(id))
       /\ \A i \in 1..Len(AssetIndex(id)) :
            AssetIndex(id)[i].hash # NoHash => isfile(asset_path(AssetIndex(id)[i].hash))

\* C28 (files): once install_version(V) has returned, V's descriptor, its
\* client jar when one is declared, the artifact and the native archive of
\* every admitted library of V and its parent, the effective asset index and
\* every hashed asset object are files on disk.
C28_FilesExist == \A v \in completed : FilesOnDisk(v) /\ AssetsOnDisk(v)

\* C28: once install_version(V) has returned, all of the above holds and every
\* selected native archive has been extracted into V's natives directory.
C28_InstalledTreeComplete ==
  \A v \in completed : FilesOnDisk(v) /\ NativesExtracted(v) /\ AssetsOnDisk(v)

\* C28: an install that returned with a native archive on disk
C28_Witness ==
  \E v \in completed : \E lib \in InstalledLibraries(v) :
    lib.native # NoPath /\ isfile(lib_path(lib.native))


(***************************************************************************)
(* C29, C30: the launch guard of the launcher window.                      *)
(***************************************************************************)
\* worker w is inside install_version or launch_game
Working(w) == task[w].pc \in {"install", "launch"}

\* C29 (threads): at most one _launch_task thread is running at any time.
C29_SingleLaunchTask ==
  \A w1 \in Workers, w2 \in Workers : Running(w1) /\ Running(w2) => w1 = w2

\* C29 (the two programs with the is_launching flag): in CAT2.1.X.py and
\* $CATCLIENT1.1.py no two workers are inside install or launch at once.
C29_FlagProgramsOneInstall ==
  has_flag => \A w1 \in Workers, w2 \in Workers : Working(w1) /\ Working(w2) => w1 = w2

\* C29: whatever the presses and the task completions, no two workers of one
\* window are inside install_version or launch_game of the same version at
\* the same time.
C29_NoConcurrentInstalls ==
  \A w1 \in Workers, w2 \in Workers :
    Working(w1) /\ Working(w2) /\ task[w1].item = task[w2].item => w1 = w2

\* C30: every _launch_task that starts leads to its re-enabling of the launch
\* button taking effect (in CAT2.1.X.py and $CATCLIENT1.1.py after it has
\* reset is_launching), however the task ends.
C30_GuardReleased == \A w \in Workers : (task[w].pc # "idle") ~> (w \in released)

\* C30 (the state at the release): when the last started task has ended and
\* no callback is queued, the button is enabled and the flag is down, so that
\* a press starts a new launch.
C30_ReleasedMeansPressable ==
  (Started # {} /\ (\A w \in Started : task[w].pc = "done") /\ after_queue = <<>>)
    => (launch_btn = "normal" /\ ~is_launching)

\* C30: three tasks of one window have given the button back, one after a
\* successful launch, one after an exception and one after the modpack return
C30_Witness ==
  \E w1 \in released, w2 \in released, w3 \in released :
    /\ task[w1].ended = "success" /\ task[w1].pc = "done"
    /\ task[w2].ended = "exception" /\ task[w2].pc = "done"
    /\ task[w3].ended = "modpack" /\ task[w3].pc = "done"
    /\ launch_btn = "normal"

\* C30: a task of a program with the flag has given the button back after an
\* exception, and the flag is down
C30_WitnessFlag ==
  \E w \in released : has_flag /\ task[w].ended = "exception" /\ task[w].pc = "done"
                      /\ launch_btn = "normal" /\ ~is_launching

====
